---- MODULE Spec2Model ----
(***************************************************************************)
(* A model of the dungeon-DSL compiler in src/src/compile_dungeon.py:      *)
(* the Lexer, the Parser, the Validator, the CodeGenerator, the driver     *)
(* main(), and the start of the generated game.                            *)
(*                                                                         *)
(* Source text is a sequence of one-character strings, so that the lexer   *)
(* is modelled character by character.  A Python None is the string        *)
(* "None" where the other values are characters or strings, and the record *)
(* NoneRec where they are records.                                         *)
(***************************************************************************)
EXTENDS Integers, Sequences, FiniteSets, TLC

VARIABLES
    argv,          \* len(sys.argv): 1 (no argument), 2 or 3
    input_fs,      \* what open(input_file) does: "ok", "missing", "unreadable"
    output_fs,     \* what open/write of output_file does: "ok", "missing",
                   \* "open_fails", "write_fails"
    pc,            \* position of the driver in main()
    done,          \* the stages of main() that have returned, in order
    text,          \* Lexer.text
    pos,           \* Lexer.pos (0-based, as in the source)
    line,          \* Lexer.line
    column,        \* Lexer.column
    tokens,        \* Lexer.tokens
    raised,        \* the exception in flight, or None
    program,       \* the Program returned by Parser.parse
    errors,        \* Validator.errors
    output_file,   \* the output file: "untouched", "truncated", "written"
    stdout,        \* the lines main() printed, by kind
    exit_code,     \* the exit status of the process, or None while running
    html,          \* what CodeGenerator.generate returned, or None: the parts
                   \* of the document that depend on the program
    game,          \* DungeonGame.state of the page in a browser, or None
    alerts,        \* what the page has shown with alert(), in order
    cursor         \* Parser.pos

vars == <<argv, input_fs, output_fs, pc, done, text, pos, line, column,
          tokens, raised, program, errors, output_file, stdout, exit_code,
          html, game, alerts, cursor>>

None == "None"
NoneRec == [type |-> "None"]

-----------------------------------------------------------------------------
(* Bounds of the model *)

\* the number of pieces a lexer input is built from
MaxPieces == 3

\* the number of mythics, items, monsters and NPCs of a validated program
MaxEntities == 2

\* the number of sections an input file is built from
MaxSections == 2
MaxPlaced == 1
RandomSteps == 3

\* the most arrow keys pressed in a game
MaxMoves == 3

-----------------------------------------------------------------------------
(* Characters: str.isalpha, str.isdigit, str.isalnum, str.lower on the     *)
(* ASCII characters the inputs are made of.                                *)

LowerLetters == <<"a", "b", "c", "d", "e", "f", "g", "h", "i", "j", "k", "l", "m",
                  "n", "o", "p", "q", "r", "s", "t", "u", "v", "w", "x", "y", "z">>
UpperLetters == <<"A", "B", "C", "D", "E", "F", "G", "H", "I", "J", "K", "L", "M",
                  "N", "O", "P", "Q", "R", "S", "T", "U", "V", "W", "X", "Y", "Z">>
Digits == <<"0", "1", "2", "3", "4", "5", "6", "7", "8", "9">>

Range(s) == {s[i] : i \in 1..Len(s)}

isalpha(c) == c \in Range(LowerLetters) \cup Range(UpperLetters)
isdigit(c) == c \in Range(Digits)
isalnum(c) == isalpha(c) \/ isdigit(c)

lower_char(c) ==
    IF c \in Range(UpperLetters)
    THEN LowerLetters[CHOOSE i \in 1..26 : UpperLetters[i] = c]
    ELSE c

lower(s) == [i \in 1..Len(s) |-> lower_char(s[i])]

\* int(num_str) for a string of decimal digits
RECURSIVE int_of(_)
int_of(ds) ==
    IF ds = <<>> THEN 0
    ELSE 10 * int_of(SubSeq(ds, 1, Len(ds) - 1))
         + (CHOOSE i \in 1..10 : Digits[i] = ds[Len(ds)]) - 1

\* the fraction digits of float(num_str), without trailing zeros
RECURSIVE strip_zeros(_)
strip_zeros(ds) ==
    IF ds # <<>> /\ ds[Len(ds)] = "0" THEN strip_zeros(SubSeq(ds, 1, Len(ds) - 1))
    ELSE ds

-----------------------------------------------------------------------------
(* Lexer *)

Token(type, value, ln, col) ==
    [type |-> type, value |-> value, line |-> ln, column |-> col]

\* Lexer.keywords: lower-case spelling -> TokenType
keywords ==
    {
       <<<<"i", "n", "i", "t">>, "INIT">>,
       <<<<"r", "u", "l", "e", "s">>, "RULES">>,
       <<<<"q", "u", "e", "s", "t", "s">>, "QUESTS">>,
       <<<<"e", "n", "d", "_", "g", "a", "m", "e">>, "END_GAME">>,
       <<<<"o", "n", "_", "g", "a", "m", "e", "_", "s", "t", "a", "r", "t">>, "ON_GAME_START">>,
       <<<<"w", "o", "r", "l", "d">>, "WORLD">>,
       <<<<"f", "u", "r", "n", "i", "t", "u", "r", "e">>, "FURNITURE">>,
       <<<<"m", "y", "t", "i", "c", "s">>, "MYTHICS">>,
       <<<<"i", "t", "e", "m", "s">>, "ITEMS">>,
       <<<<"m", "o", "n", "s", "t", "e", "r", "s">>, "MONSTERS">>,
       <<<<"u", "s", "e", "r">>, "USER">>,
       <<<<"n", "p", "c">>, "NPC">>,
       <<<<"l", "e", "t">>, "LET">>,
       <<<<"c", "a", "t", "c", "h">>, "CATCH">>,
       <<<<"i", "f">>, "IF">>,
       <<<<"t", "h", "e", "n">>, "THEN">>,
       <<<<"a", "n", "d">>, "AND">>,
       <<<<"a", "t">>, "AT">>,
       <<<<"i", "s">>, "IS">>,
       <<<<"h", "a", "s">>, "HAS">>,
       <<<<"s", "h", "o", "w">>, "SHOW">>,
       <<<<"w", "i", "n">>, "WIN">>,
       <<<<"l", "o", "s", "e">>, "LOSE">>,
       <<<<"d", "i", "e">>, "DIE">>,
       <<<<"l", "e", "v", "e", "l">>, "LEVEL_UP">>,
       <<<<"m", "o", "v", "e">>, "MOVE">>,
       <<<<"t", "a", "l", "k">>, "TALK">>,
       <<<<"a", "t", "t", "a", "c", "k">>, "ATTACK">>,
       <<<<"u", "s", "e">>, "USE">>,
       <<<<"s", "e", "t">>, "SET">>,
       <<<<"t", "o", "u", "c", "h">>, "TOUCH">>,
       <<<<"p", "l", "a", "c", "e">>, "PLACE">>,
       <<<<"c", "h", "e", "c", "k", "_", "i", "n", "v", "e", "n", "t", "o", "r", "y">>, "CHECK_INVENTORY">>,
       <<<<"t", "o", "w", "a", "r", "d", "s">>, "TOWARDS">>,
       <<<<"w", "i", "t", "h">>, "WITH">>,
       <<<<"c", "a", "n">>, "CAN">>,
       <<<<"b", "e">>, "BE">>,
       <<<<"p", "i", "c", "k", "e", "d">>, "PICKED">>,
       <<<<"u", "p">>, "UP">>,
       <<<<"b", "y">>, "BY">>,
       <<<<"t", "h", "e">>, "THE">>,
       <<<<"g", "i", "v", "e", "s">>, "GIVES">>,
       <<<<"e", "x", "p", "e", "r", "i", "e", "n", "c", "e">>, "EXPERIENCE">>,
       <<<<"h", "e", "a", "l", "t", "h">>, "HEALTH">>,
       <<<<"d", "a", "m", "a", "g", "e">>, "DAMAGE">>,
       <<<<"k", "i", "l", "l", "a", "b", "l", "e">>, "KILLABLE">>,
       <<<<"h", "i", "t">>, "HIT">>,
       <<<<"r", "a", "n", "d", "o", "m">>, "RANDOM">>,
       <<<<"a", "l", "l">>, "ALL">>,
       <<<<"t", "o">>, "TO">>,
       <<<<"o", "f">>, "OF">>,
       <<<<"t", "r", "u", "e">>, "BOOLEAN">>,
       <<<<"f", "a", "l", "s", "e">>, "BOOLEAN">>
    }

keyword_type(ident) ==
    LET low == lower(ident) IN
    IF \E e \in keywords : e[1] = low
    THEN (CHOOSE e \in keywords : e[1] = low)[2]
    ELSE "IDENTIFIER"

\* A lexer object: [text, pos, line, column, tokens]
Lexer(t) == [text |-> t, pos |-> 0, line |-> 1, column |-> 1, tokens |-> <<>>]

current_char(lx) ==
    IF lx.pos >= Len(lx.text) THEN None ELSE lx.text[lx.pos + 1]

peek_char(lx) ==
    IF lx.pos + 1 >= Len(lx.text) THEN None ELSE lx.text[lx.pos + 2]

advance(lx) ==
    IF current_char(lx) = "\n"
    THEN [lx EXCEPT !.line = @ + 1, !.column = 1, !.pos = @ + 1]
    ELSE [lx EXCEPT !.column = @ + 1, !.pos = @ + 1]

RECURSIVE skip_whitespace(_)
skip_whitespace(lx) ==
    IF current_char(lx) \in {" ", "\t", "\r"}
    THEN skip_whitespace(advance(lx))
    ELSE lx

\* the character an escape \c decodes to
escape_char(c) ==
    CASE c = "n" -> "\n"
      [] c = "t" -> "\t"
      [] c = "\\" -> "\\"
      [] c = "\"" -> "\""
      [] OTHER -> c

\* the loop of read_string; a backslash that ends the input makes
\* `value += self.current_char()` add None to a str: TypeError
RECURSIVE read_string_loop(_, _, _)
read_string_loop(lx, quote, value) ==
    LET c == current_char(lx) IN
    IF c = None \/ c = quote
    THEN [lx |-> lx, value |-> value, raised |-> None]
    ELSE IF c = "\\"
    THEN LET lx1 == advance(lx)
             e == current_char(lx1)
         IN  IF e = None
             THEN [lx |-> lx1, value |-> value, raised |-> "TypeError"]
             ELSE read_string_loop(advance(lx1), quote, Append(value, escape_char(e)))
    ELSE read_string_loop(advance(lx), quote, Append(value, c))

read_string(lx) ==
    LET quote == current_char(lx)
        r == read_string_loop(advance(lx), quote, <<>>)
    IN  IF r.raised = None /\ current_char(r.lx) = quote
        THEN [r EXCEPT !.lx = advance(r.lx)]
        ELSE r

RECURSIVE read_number_loop(_, _, _)
read_number_loop(lx, num_str, is_float) ==
    LET c == current_char(lx) IN
    IF c # None /\ (isdigit(c) \/ c = ".")
    THEN IF c = "." /\ is_float
         THEN [lx |-> lx, num_str |-> num_str, is_float |-> is_float]
         ELSE read_number_loop(advance(lx), Append(num_str, c), is_float \/ c = ".")
    ELSE [lx |-> lx, num_str |-> num_str, is_float |-> is_float]

\* the value of a number: int(num_str), or float(num_str) as its whole part
\* and its fraction digits
Number(num_str, is_float) ==
    LET dot == IF is_float THEN CHOOSE i \in 1..Len(num_str) : num_str[i] = "."
               ELSE Len(num_str) + 1
    IN  [is_float |-> is_float,
         whole |-> int_of(SubSeq(num_str, 1, dot - 1)),
         frac |-> strip_zeros(SubSeq(num_str, dot + 1, Len(num_str)))]

read_number(lx) ==
    LET r == read_number_loop(lx, <<>>, FALSE) IN
    [lx |-> r.lx, value |-> Number(r.num_str, r.is_float)]

RECURSIVE read_identifier_loop(_, _)
read_identifier_loop(lx, ident) ==
    LET c == current_char(lx) IN
    IF c # None /\ (isalnum(c) \/ c \in {"_", "-"})
    THEN read_identifier_loop(advance(lx), Append(ident, c))
    ELSE [lx |-> lx, ident |-> ident]

read_identifier(lx) == read_identifier_loop(lx, <<>>)

RECURSIVE read_comment(_)
read_comment(lx) ==
    IF current_char(lx) # None /\ current_char(lx) # "\n"
    THEN read_comment(advance(lx))
    ELSE lx

SyntaxError(ln, col) == [type |-> "SyntaxError", line |-> ln, column |-> col]
TypeError == [type |-> "TypeError"]
AttributeError == [type |-> "AttributeError"]

Emit(lx, tok) == [lx |-> [lx EXCEPT !.tokens = Append(@, tok)], raised |-> NoneRec]
Raise(lx, exc) == [lx |-> lx, raised |-> exc]

\* the two-character operators, and their one-character prefixes
operator_token(lx, char, type2, type1, ln, col) ==
    IF peek_char(lx) = "="
    THEN Emit(advance(advance(lx)), Token(type2, <<char, "=">>, ln, col))
    ELSE Emit(advance(lx), Token(type1, <<char>>, ln, col))

punctuation == {<<",", "COMMA">>, <<":", "COLON">>, <<";", "SEMICOLON">>,
                <<"(", "LPAREN">>, <<")", "RPAREN">>}

\* the multi-word keyword check: text[next_pos:next_pos+3] == ' up' extends
\* the identifier and moves pos, and only pos, past it
level_up(lx, ident) ==
    IF ident = <<"l", "e", "v", "e", "l">> /\ current_char(lx) = " "
       /\ lx.pos + 3 <= Len(lx.text)
       /\ SubSeq(lx.text, lx.pos + 1, lx.pos + 3) = <<" ", "u", "p">>
    THEN [lx |-> [lx EXCEPT !.pos = @ + 3], ident |-> ident \o <<" ", "u", "p">>]
    ELSE [lx |-> lx, ident |-> ident]

identifier_token(lx0, ln, col) ==
    LET r == read_identifier(lx0)
        m == level_up(r.lx, r.ident)
        token_type == keyword_type(m.ident)
    IN  IF token_type = "BOOLEAN"
        THEN Emit(m.lx, Token("BOOLEAN", lower(m.ident) = <<"t", "r", "u", "e">>, ln, col))
        ELSE Emit(m.lx, Token(token_type, m.ident, ln, col))

\* a lexer that skips a character it does not know
unknown_character_skipped(lx, ln, col) == [lx |-> advance(lx), raised |-> NoneRec]

\* the fall-through of the loop body: no rule matched the character
unknown_character(lx, ln, col) == Raise(lx, SyntaxError(ln, col))

\* One iteration of the while loop of tokenize, entered with pos < len(text).
\* The result is the lexer after the iteration and the exception it raised.
tokenize_iteration(lx0) ==
    LET lx == skip_whitespace(lx0)
        char == current_char(lx)
        ln == lx.line
        col == lx.column
    IN  CASE char = None -> [lx |-> lx, raised |-> NoneRec]
          [] char = "#" -> [lx |-> read_comment(lx), raised |-> NoneRec]
          [] char = "\n" -> [lx |-> advance(lx), raised |-> NoneRec]
          [] char \in {"\"", "'"} ->
                LET r == read_string(lx) IN
                IF r.raised # None THEN Raise(r.lx, TypeError)
                ELSE Emit(r.lx, Token("STRING", r.value, ln, col))
          [] isdigit(char) ->
                LET r == read_number(lx) IN
                IF current_char(r.lx) = "%"
                THEN Emit(advance(r.lx), Token("PERCENTAGE", r.value, ln, col))
                ELSE Emit(r.lx, Token("NUMBER", r.value, ln, col))
          [] char = "=" -> operator_token(lx, char, "EQ", "EQUALS", ln, col)
          [] char = ">" -> operator_token(lx, char, "GTE", "GT", ln, col)
          [] char = "<" -> operator_token(lx, char, "LTE", "LT", ln, col)
          [] char = "!" ->
                IF peek_char(lx) = "="
                THEN Emit(advance(advance(lx)), Token("NE", <<"!", "=">>, ln, col))
                ELSE Raise(lx, SyntaxError(ln, col))
          [] \E p \in punctuation : p[1] = char ->
                Emit(advance(lx),
                     Token((CHOOSE p \in punctuation : p[1] = char)[2], <<char>>, ln, col))
          [] isalpha(char) \/ char = "_" -> identifier_token(lx, ln, col)
          [] OTHER -> unknown_character(lx, ln, col)

\* a tokenize that returns without the EOF token
tokenize_return_no_eof(lx) == lx

\* the end of tokenize: the EOF token
tokenize_return(lx) ==
    [lx EXCEPT !.tokens = Append(@, Token("EOF", None, lx.line, lx.column))]

\* tokenize as a function of the text: the returned tokens, or the exception
RECURSIVE tokenize_loop(_)
tokenize_loop(lx) ==
    IF lx.pos < Len(lx.text)
    THEN LET r == tokenize_iteration(lx) IN
         IF r.raised # NoneRec THEN [tokens |-> r.lx.tokens, raised |-> r.raised]
         ELSE tokenize_loop(r.lx)
    ELSE [tokens |-> tokenize_return(lx).tokens, raised |-> NoneRec]

tokenize(t) == tokenize_loop(Lexer(t))

-----------------------------------------------------------------------------
(* AST nodes.  An absent (None) node or optional value is NoneRec; a value  *)
(* that may be absent is wrapped with the type it has in the source.       *)

StrValue(s) == [type |-> "str", value |-> s]
IntValue(n) == [type |-> "int", value |-> n]
BoolValue(b) == [type |-> "bool", value |-> b]
Coord(x, y) == [type |-> "tuple", x |-> x, y |-> y]

Program(variables, init_section, rules_section, quests_section, end_game_section, on_game_start_section) ==
    [class |-> "Program", variables |-> variables, init_section |-> init_section,
     rules_section |-> rules_section, quests_section |-> quests_section,
     end_game_section |-> end_game_section,
     on_game_start_section |-> on_game_start_section]

InitSection ==
    [class |-> "InitSection", world |-> NoneRec, furniture |-> <<>>,
     mythics |-> <<>>, items |-> <<>>, monsters |-> <<>>, user |-> NoneRec,
     npcs |-> <<>>, llm_endpoint |-> NoneRec, llm_token |-> NoneRec]

WorldDecl(width, height) ==
    [class |-> "WorldDecl", width |-> width, height |-> height]

FurnitureItem(name, placement) ==
    [class |-> "FurnitureItem", name |-> name, placement |-> placement]

\* Placement.type is 'all', 'coordinate', 'range' or 'random'
Placement(type, coord1, coord2, percentage) ==
    [type |-> type, coord1 |-> coord1, coord2 |-> coord2, percentage |-> percentage]

MythicItem(unique_name, placement, can_pickup, catch_message) ==
    [class |-> "MythicItem", unique_name |-> unique_name, placement |-> placement,
     can_pickup |-> can_pickup, catch_message |-> catch_message]

ItemDecl(item_type, unique_name, placement, can_pickup, effect, damage, catch_message) ==
    [class |-> "ItemDecl", item_type |-> item_type, unique_name |-> unique_name,
     placement |-> placement, can_pickup |-> can_pickup, effect |-> effect,
     damage |-> damage, catch_message |-> catch_message]

MonsterDecl(unique_name, monster_type, placement, health, killable_hits, experience) ==
    [class |-> "MonsterDecl", unique_name |-> unique_name, monster_type |-> monster_type,
     placement |-> placement, health |-> health, killable_hits |-> killable_hits,
     experience |-> experience]

UserDecl(unique_name, context, position) ==
    [class |-> "UserDecl", unique_name |-> unique_name, context |-> context,
     position |-> position]

NPCDecl(npc_type, unique_name, placement, context, response, state_machine, emoji, agenda, conditions, catch_message) ==
    [class |-> "NPCDecl", npc_type |-> npc_type, unique_name |-> unique_name,
     placement |-> placement, context |-> context, response |-> response,
     state_machine |-> state_machine, emoji |-> emoji, agenda |-> agenda,
     conditions |-> conditions, catch_message |-> catch_message]

\* Condition.type is 'position', 'has', 'comparison', 'talked_to' or 'responded_to'
Condition(type, entity, operator, value, position) ==
    [type |-> type, entity |-> entity, operator |-> operator, value |-> value,
     position |-> position]

\* Action.type is 'talk', 'level up' or 'command'
Action(type, command, target, value) ==
    [type |-> type, command |-> command, target |-> target, value |-> value]

Rule(conditions, action) ==
    [class |-> "Rule", conditions |-> conditions, action |-> action]

RulesSection(rules) == [class |-> "RulesSection", rules |-> rules]

\* the strings the parser compares the values of tokens with
S ==
    [user |-> <<"u", "s", "e", "r">>,
     player |-> <<"p", "l", "a", "y", "e", "r">>,
     monster_static |-> <<"m", "o", "n", "s", "t", "e", "r", "-", "s", "t", "a", "t", "i", "c">>,
     unique_name |-> <<"u", "n", "i", "q", "u", "e", "_", "n", "a", "m", "e">>,
     context |-> <<"c", "o", "n", "t", "e", "x", "t">>,
     response |-> <<"r", "e", "s", "p", "o", "n", "s", "e">>,
     state_machine |-> <<"s", "t", "a", "t", "e", "_", "m", "a", "c", "h", "i", "n", "e">>,
     emoji |-> <<"e", "m", "o", "j", "i">>,
     agenda |-> <<"a", "g", "e", "n", "d", "a">>,
     llm |-> <<"l", "l", "m">>,
     endpoint |-> <<"e", "n", "d", "p", "o", "i", "n", "t">>,
     token |-> <<"t", "o", "k", "e", "n">>,
     item |-> <<"i", "t", "e", "m">>,
     experience |-> <<"e", "x", "p", "e", "r", "i", "e", "n", "c", "e">>,
     health |-> <<"h", "e", "a", "l", "t", "h">>,
     responded |-> <<"r", "e", "s", "p", "o", "n", "d", "e", "d">>,
     responds |-> <<"r", "e", "s", "p", "o", "n", "d", "s">>,
     talked |-> <<"t", "a", "l", "k", "e", "d">>,
     win_the_game |-> <<"w", "i", "n", "_", "t", "h", "e", "_", "g", "a", "m", "e">>,
     lose_the_game |-> <<"l", "o", "s", "e", "_", "t", "h", "e", "_", "g", "a", "m", "e">>,
     display_title |-> <<"d", "i", "s", "p", "l", "a", "y", "_", "t", "i", "t", "l", "e">>,
     display_text |-> <<"d", "i", "s", "p", "l", "a", "y", "_", "t", "e", "x", "t">>,
     display_link |-> <<"d", "i", "s", "p", "l", "a", "y", "_", "l", "i", "n", "k">>,
     talk_ |-> <<"t", "a", "l", "k", "-">>,
     display_ |-> <<"d", "i", "s", "p", "l", "a", "y", "_">>,
     monster_dynamic |-> <<"m", "o", "n", "s", "t", "e", "r", "-", "d", "y", "n", "a", "m", "i", "c">>,
     monster_boss |-> <<"m", "o", "n", "s", "t", "e", "r", "-", "b", "o", "s", "s">>]

S_npc_static == <<"n", "p", "c", "-", "s", "t", "a", "t", "i", "c">>
S_npc_dynamic == <<"n", "p", "c", "-", "d", "y", "n", "a", "m", "i", "c">>

-----------------------------------------------------------------------------
(* Parser.  The parser's state is its cursor pos and the SyntaxError it    *)
(* has raised, NoneRec while it has raised none; an operation on a parser  *)
(* that has raised leaves it as it is, which is how the exception leaves   *)
(* every caller.  A parse_ operator returns the parser and the value.      *)


VariableDecl(name, value) == [class |-> "VariableDecl", name |-> name, value |-> value]

NumValue(n) == [type |-> "number", value |-> n]

Parser == [pos |-> 0, err |-> NoneRec]

Failed(p) == p.err # NoneRec

Ret(p, val) == [p |-> p, val |-> val]

\* the value of a function on its only argument: Given([r \in {e} |-> F(r)])
\* is F(e), as `r = e` followed by the statements F in the source
Given(f) == f[CHOOSE only \in DOMAIN f : TRUE]

\* what one pass of a loop leaves: the loop's state st, and whether the loop
\* is left (its condition is false, or the pass ends in `break`) or taken
\* again; a pass that raises leaves the parser failed
Continue(st) == [exits |-> FALSE, st |-> st]

Break(st) == [exits |-> TRUE, st |-> st]

\* SyntaxError messages that carry a line only
SyntaxErrorAtLine(ln) == [type |-> "SyntaxError", line |-> ln]

current_token(toks, p) ==
    IF p.pos >= Len(toks) THEN toks[Len(toks)] ELSE toks[p.pos + 1]

peek_token(toks, p) ==
    IF p.pos + 1 >= Len(toks) THEN toks[Len(toks)] ELSE toks[p.pos + 2]

advance_token(toks, p) ==
    IF p.pos < Len(toks) THEN [p EXCEPT !.pos = @ + 1] ELSE p

\* expect(token_type); the source never passes a value
expect(toks, p, token_type) ==
    IF Failed(p) THEN p
    ELSE LET token == current_token(toks, p) IN
         IF token.type # token_type
         THEN [p EXCEPT !.err = SyntaxError(token.line, token.column)]
         ELSE advance_token(toks, p)

\* the token the last successful expect or advance returned
Consumed(toks, p) == toks[p.pos]

\* the head token is the identifier spelled s
IsIdentifier(token, s) == token.type = "IDENTIFIER" /\ token.value = s

\* int(value) of a NUMBER token's value
int(value) == value.whole

\* the value a literal token carries
TokenValue(token) ==
    CASE token.type = "NUMBER" -> NumValue(token.value)
      [] token.type = "BOOLEAN" -> BoolValue(token.value)
      [] OTHER -> StrValue(token.value)

parse_value(toks, p) ==
    LET token == current_token(toks, p) IN
    IF token.type \in {"NUMBER", "STRING", "BOOLEAN", "IDENTIFIER"}
    THEN Ret(advance_token(toks, p), TokenValue(token))
    ELSE Ret([p EXCEPT !.err = SyntaxErrorAtLine(token.line)], NoneRec)

parse_variable(toks, p) ==
    LET p1 == expect(toks, p, "LET")
        p2 == expect(toks, p1, "IDENTIFIER")
        p3 == expect(toks, p2, "EQUALS")
    IN  IF Failed(p3) THEN Ret(p3, NoneRec)
        ELSE LET v == parse_value(toks, p3) IN
             IF Failed(v.p) THEN v
             ELSE Ret(v.p, VariableDecl(Consumed(toks, p2).value, v.val))

parse_world(toks, p) ==
    LET p1 == expect(toks, expect(toks, p, "WORLD"), "COLON") IN
    IF Failed(p1) THEN Ret(p1, NoneRec)
    ELSE IF current_token(toks, p1).type = "NUMBER"
    THEN LET p2 == expect(toks, p1, "NUMBER")
             p3 == expect(toks, p2, "IDENTIFIER")
             p4 == expect(toks, p3, "NUMBER")
             p5 == expect(toks, p4, "IDENTIFIER")
         IN  IF Failed(p5) THEN Ret(p5, NoneRec)
             ELSE Ret(p5, WorldDecl(int(Consumed(toks, p2).value),
                                    int(Consumed(toks, p4).value)))
    ELSE LET p2 == expect(toks, p1, "IDENTIFIER") IN
         IF Failed(p2) THEN Ret(p2, NoneRec) ELSE Ret(p2, WorldDecl(100, 100))

parse_coordinate(toks, p) ==
    LET p1 == expect(toks, p, "LPAREN")
        p2 == expect(toks, p1, "NUMBER")
        p3 == expect(toks, p2, "COMMA")
        p4 == expect(toks, p3, "NUMBER")
        p5 == expect(toks, p4, "RPAREN")
    IN  IF Failed(p5) THEN Ret(p5, NoneRec)
        ELSE Ret(p5, Coord(int(Consumed(toks, p2).value), int(Consumed(toks, p4).value)))

parse_placement(toks, p) ==
    LET token == current_token(toks, p) IN
    IF Failed(p) THEN Ret(p, NoneRec)
    ELSE IF token.type = "ALL"
    THEN Ret(advance_token(toks, p), Placement("all", NoneRec, NoneRec, NoneRec))
    ELSE IF token.type = "RANDOM"
    THEN LET p1 == expect(toks, advance_token(toks, p), "LPAREN")
             p2 == expect(toks, p1, "PERCENTAGE")
             p3 == expect(toks, p2, "RPAREN")
         IN  IF Failed(p3) THEN Ret(p3, NoneRec)
             ELSE Ret(p3, Placement("random", NoneRec, NoneRec, Consumed(toks, p2).value))
    ELSE IF token.type = "LPAREN"
    THEN Given([c1 \in {parse_coordinate(toks, p)} |->
         IF Failed(c1.p) THEN c1
         ELSE IF current_token(toks, c1.p).type = "TO"
         THEN Given([c2 \in {parse_coordinate(toks, advance_token(toks, c1.p))} |->
              IF Failed(c2.p) THEN c2
              ELSE Ret(c2.p, Placement("range", c1.val, c2.val, NoneRec))])
         ELSE Ret(c1.p, Placement("coordinate", c1.val, NoneRec, NoneRec))])
    ELSE Ret([p EXCEPT !.err = SyntaxErrorAtLine(token.line)], NoneRec)

\* parse_furniture; the value of its loop is the list so far
parse_furniture(toks, p) ==
    LET RECURSIVE parse_furniture_loop(_)
        parse_furniture_loop(st) ==
            IF Failed(st.p) \/ current_token(toks, st.p).type # "IDENTIFIER"
               \/ peek_token(toks, st.p).type # "AT"
            THEN st
            ELSE LET p1 == expect(toks, st.p, "IDENTIFIER") IN
                 Given([pl \in {parse_placement(toks, expect(toks, p1, "AT"))} |->
                     IF Failed(pl.p) THEN Ret(pl.p, st.val)
                     ELSE parse_furniture_loop(Ret(pl.p, Append(st.val,
                                              FurnitureItem(Consumed(toks, p1).value, pl.val))))])
    IN  parse_furniture_loop(Ret(expect(toks, expect(toks, p, "FURNITURE"), "COLON"), <<>>))

\* `can be picked up by the user`, from the token after `can be picked`
picked_up_by_the_user(toks, p) ==
    LET p1 == expect(toks, expect(toks, expect(toks, p, "UP"), "BY"), "THE") IN
    IF Failed(p1) THEN p1
    ELSE IF current_token(toks, p1).type = "USER" THEN advance_token(toks, p1)
    ELSE expect(toks, p1, "IDENTIFIER")

\* `unique_name = "..."`, from the token after unique_name
assigned_string(toks, p) == expect(toks, expect(toks, p, "EQUALS"), "STRING")

\* a test of whether a name was given, empty or not
Given_a_name(s) == s # NoneRec

\* `if unique_name:`
Truthy(s) == s # NoneRec /\ s.value # <<>>

\* one pass of the property loop of parse_mythics
parse_mythic_property(toks, st) ==
    LET cur == st.p
        token == current_token(toks, cur)
        next == advance_token(toks, cur)
    IN  IF Failed(cur) \/ token.type \notin {"IDENTIFIER", "STRING", "AT", "CAN",
                                            "CATCH", "COMMA", "PLACE"}
        THEN Break(st)
        ELSE IF token.type = "COMMA"
        THEN Continue([st EXCEPT !.p = next])
        ELSE IF IsIdentifier(token, S.unique_name)
        THEN LET p1 == assigned_string(toks, next) IN
             Continue(
                IF Failed(p1) THEN [st EXCEPT !.p = p1]
                ELSE [st EXCEPT !.p = p1,
                                !.unique_name = StrValue(Consumed(toks, p1).value)])
        ELSE IF token.type = "PLACE"
        THEN Continue(Given(
                [pl \in {parse_placement(toks, expect(toks, next, "AT"))} |->
                    IF Failed(pl.p) THEN [st EXCEPT !.p = pl.p]
                    ELSE [st EXCEPT !.p = pl.p, !.placement = pl.val]]))
        ELSE IF token.type = "CAN"
        THEN LET p1 == picked_up_by_the_user(toks,
                          expect(toks, expect(toks, next, "BE"), "PICKED"))
             IN  Continue(
                    IF Failed(p1) THEN [st EXCEPT !.p = p1]
                    ELSE [st EXCEPT !.p = p1, !.can_pickup = TRUE])
        ELSE IF token.type = "CATCH"
        THEN LET p1 == expect(toks, next, "STRING") IN
             Continue(
                IF Failed(p1) THEN [st EXCEPT !.p = p1]
                ELSE [st EXCEPT !.p = p1,
                                !.catch_message = StrValue(Consumed(toks, p1).value)])
        ELSE Break(st)

\* parse_mythics: the loop over the declarations, whose value is the list,
\* and the property loop, whose st holds the parser and the locals
parse_mythics(toks, p) ==
    LET RECURSIVE parse_mythic_properties(_)
        parse_mythic_properties(st) ==
            Given([it \in {parse_mythic_property(toks, st)} |->
                IF it.exits THEN it.st ELSE parse_mythic_properties(it.st)])
        RECURSIVE parse_mythics_loop(_)
        parse_mythics_loop(st) ==
            IF Failed(st.p) \/ current_token(toks, st.p).type # "IDENTIFIER" THEN st
            ELSE Given([d \in {parse_mythic_properties(
                             [p |-> expect(toks, expect(toks, st.p, "IDENTIFIER"), "COLON"),
                              unique_name |-> NoneRec, placement |-> NoneRec,
                              can_pickup |-> FALSE, catch_message |-> NoneRec])} |->
                     IF Failed(d.p) THEN Ret(d.p, st.val)
                     ELSE parse_mythics_loop(
                             Ret(d.p, IF Truthy(d.unique_name)
                                      THEN Append(st.val,
                                              MythicItem(d.unique_name.value, d.placement,
                                                         d.can_pickup, d.catch_message))
                                      ELSE st.val))])
    IN  parse_mythics_loop(
            Ret(expect(toks, expect(toks, p, "MYTHICS"), "COLON"), <<>>))

\* ' '.join(parts)
RECURSIVE join(_)
join(parts) ==
    IF parts = <<>> THEN <<>>
    ELSE IF Len(parts) = 1 THEN parts[1]
    ELSE parts[1] \o <<" ">> \o join(Tail(parts))

\* one pass of the scan of the effect description after `can be use to`; st
\* holds the parser, effect and effect_parts
parse_effect_part(toks, st) ==
    LET token == current_token(toks, st.p) IN
    IF Failed(st.p) \/ token.type \in {"COMMA", "CATCH", "EOF", "IDENTIFIER"}
    THEN Break(st)
    ELSE IF token.type = "STRING"
    THEN Break([st EXCEPT !.p = expect(toks, st.p, "STRING"),
                          !.effect = StrValue(token.value)])
    ELSE IF token.type = "IDENTIFIER"
    THEN Continue([st EXCEPT !.p = expect(toks, st.p, "IDENTIFIER"),
                             !.effect_parts = Append(@, token.value)])
    ELSE Continue([st EXCEPT !.p = advance_token(toks, st.p)])

\* the scan of the effect description
RECURSIVE parse_effect(_, _)
parse_effect(toks, st) ==
    Given([it \in {parse_effect_part(toks, st)} |->
        IF it.exits THEN it.st ELSE parse_effect(toks, it.st)])

\* the `can` property of an item: `can be use to ...` or
\* `can be picked up by the user`, from the token after `can`
parse_item_can(toks, st, next) ==
    LET p1 == expect(toks, next, "BE") IN
    IF Failed(p1) THEN [st EXCEPT !.p = p1]
    ELSE IF current_token(toks, p1).type = "USE"
    THEN LET p2 == expect(toks, advance_token(toks, p1), "TO") IN
         IF Failed(p2) THEN [st EXCEPT !.p = p2]
         ELSE LET e == parse_effect(toks, [p |-> p2, effect |-> st.effect,
                                           effect_parts |-> <<>>])
              IN  [st EXCEPT !.p = e.p,
                             !.effect = IF Truthy(e.effect) THEN e.effect
                                        ELSE StrValue(join(e.effect_parts))]
    ELSE IF current_token(toks, p1).type = "PICKED"
    THEN LET p2 == picked_up_by_the_user(toks, expect(toks, p1, "PICKED")) IN
         IF Failed(p2) THEN [st EXCEPT !.p = p2]
         ELSE [st EXCEPT !.p = p2, !.can_pickup = TRUE]
    ELSE [st EXCEPT !.p = p1]

\* one pass of the property loop of parse_items
parse_item_property(toks, st) ==
    LET cur == st.p
        token == current_token(toks, cur)
        next == advance_token(toks, cur)
    IN  IF Failed(cur) \/ token.type \notin {"IDENTIFIER", "STRING", "AT", "CAN",
                                            "CATCH", "DAMAGE", "COMMA", "PLACE"}
        THEN Break(st)
        ELSE IF token.type = "COMMA"
        THEN Continue([st EXCEPT !.p = next])
        ELSE IF IsIdentifier(token, S.unique_name)
        THEN LET p1 == assigned_string(toks, next) IN
             Continue(
                IF Failed(p1) THEN [st EXCEPT !.p = p1]
                ELSE [st EXCEPT !.p = p1,
                                !.unique_name = StrValue(Consumed(toks, p1).value)])
        ELSE IF token.type = "PLACE"
        THEN Continue(Given(
                [pl \in {parse_placement(toks, expect(toks, next, "AT"))} |->
                    IF Failed(pl.p) THEN [st EXCEPT !.p = pl.p]
                    ELSE [st EXCEPT !.p = pl.p, !.placement = pl.val]]))
        ELSE IF token.type = "CAN"
        THEN Continue(parse_item_can(toks, st, next))
        ELSE IF token.type = "DAMAGE"
        THEN LET p1 == expect(toks, next, "NUMBER") IN
             Continue(
                IF Failed(p1) THEN [st EXCEPT !.p = p1]
                ELSE [st EXCEPT !.p = p1,
                                !.damage = IntValue(int(Consumed(toks, p1).value))])
        ELSE IF token.type = "CATCH"
        THEN LET p1 == expect(toks, next, "STRING") IN
             Continue(
                IF Failed(p1) THEN [st EXCEPT !.p = p1]
                ELSE [st EXCEPT !.p = p1,
                                !.catch_message = StrValue(Consumed(toks, p1).value)])
        ELSE Break(st)

\* parse_items, with its property loop and its loop over the declarations
parse_items(toks, p) ==
    LET RECURSIVE parse_item_properties(_)
        parse_item_properties(st) ==
            Given([it \in {parse_item_property(toks, st)} |->
                IF it.exits THEN it.st ELSE parse_item_properties(it.st)])
        RECURSIVE parse_items_loop(_)
        parse_items_loop(st) ==
            IF Failed(st.p) \/ current_token(toks, st.p).type # "IDENTIFIER" THEN st
            ELSE LET p0 == expect(toks, st.p, "IDENTIFIER") IN
                 Given([d \in {parse_item_properties(
                             [p |-> expect(toks, p0, "COLON"),
                              unique_name |-> NoneRec, placement |-> NoneRec,
                              can_pickup |-> FALSE, effect |-> NoneRec, damage |-> NoneRec,
                              catch_message |-> NoneRec])} |->
                     IF Failed(d.p) THEN Ret(d.p, st.val)
                     ELSE parse_items_loop(
                             Ret(d.p, IF Truthy(d.unique_name)
                                      THEN Append(st.val,
                                              ItemDecl(Consumed(toks, p0).value,
                                                       d.unique_name.value, d.placement,
                                                       d.can_pickup, d.effect, d.damage,
                                                       d.catch_message))
                                      ELSE st.val))])
    IN  parse_items_loop(Ret(expect(toks, expect(toks, p, "ITEMS"), "COLON"), <<>>))

\* one pass of the property loop of parse_monsters
parse_monster_property(toks, st) ==
    LET cur == st.p
        token == current_token(toks, cur)
        next == advance_token(toks, cur)
    IN  IF Failed(cur) \/ token.type \notin {"IDENTIFIER", "STRING", "AT", "HEALTH",
                                            "KILLABLE", "GIVES", "COMMA", "PLACE"}
        THEN Break(st)
        ELSE IF token.type = "COMMA"
        THEN Continue([st EXCEPT !.p = next])
        ELSE IF IsIdentifier(token, S.unique_name)
        THEN LET p1 == assigned_string(toks, next) IN
             Continue(
                IF Failed(p1) THEN [st EXCEPT !.p = p1]
                ELSE [st EXCEPT !.p = p1,
                                !.unique_name = StrValue(Consumed(toks, p1).value)])
        ELSE IF token.type = "PLACE"
        THEN Continue(Given(
                [pl \in {parse_placement(toks, expect(toks, next, "AT"))} |->
                    IF Failed(pl.p) THEN [st EXCEPT !.p = pl.p]
                    ELSE [st EXCEPT !.p = pl.p, !.placement = pl.val]]))
        ELSE IF token.type = "HEALTH"
        THEN LET p1 == expect(toks, next, "NUMBER") IN
             Continue(
                IF Failed(p1) THEN [st EXCEPT !.p = p1]
                ELSE [st EXCEPT !.p = p1,
                                !.health = IntValue(int(Consumed(toks, p1).value))])
        ELSE IF token.type = "KILLABLE"
        THEN LET p1 == expect(toks, next, "NUMBER")
                 p2 == expect(toks, p1, "HIT")
             IN  Continue(
                    IF Failed(p2) THEN [st EXCEPT !.p = p2]
                    ELSE [st EXCEPT !.p = p2,
                             !.killable_hits = IntValue(int(Consumed(toks, p1).value))])
        ELSE IF token.type = "GIVES"
        THEN LET p1 == expect(toks, next, "NUMBER")
                 p2 == expect(toks, p1, "EXPERIENCE")
             IN  Continue(
                    IF Failed(p2) THEN [st EXCEPT !.p = p2]
                    ELSE [st EXCEPT !.p = p2,
                             !.experience = IntValue(int(Consumed(toks, p1).value))])
        ELSE Break(st)

parse_monsters(toks, p) ==
    LET RECURSIVE parse_monster_properties(_)
        parse_monster_properties(st) ==
            Given([it \in {parse_monster_property(toks, st)} |->
                IF it.exits THEN it.st ELSE parse_monster_properties(it.st)])
        RECURSIVE parse_monsters_loop(_)
        parse_monsters_loop(st) ==
            IF Failed(st.p) \/ current_token(toks, st.p).type # "IDENTIFIER" THEN st
            ELSE LET monster_type_token == current_token(toks, st.p)
                     p0 == expect(toks, st.p, "IDENTIFIER")
                 IN  IF monster_type_token.value \notin
                            {S.monster_static, S.monster_dynamic, S.monster_boss}
                     THEN Ret([p0 EXCEPT !.err = SyntaxErrorAtLine(monster_type_token.line)],
                              st.val)
                     ELSE Given([d \in {parse_monster_properties(
                                      [p |-> expect(toks, p0, "COLON"),
                                       unique_name |-> NoneRec,
                                       placement |-> NoneRec, health |-> NoneRec,
                                       killable_hits |-> NoneRec, experience |-> NoneRec])} |->
                              IF Failed(d.p) THEN Ret(d.p, st.val)
                              ELSE parse_monsters_loop(
                                      Ret(d.p, IF Truthy(d.unique_name)
                                               THEN Append(st.val,
                                                       MonsterDecl(d.unique_name.value,
                                                           monster_type_token.value,
                                                           d.placement, d.health,
                                                           d.killable_hits, d.experience))
                                               ELSE st.val))])
    IN  parse_monsters_loop(
            Ret(expect(toks, expect(toks, p, "MONSTERS"), "COLON"), <<>>))

\* one pass of the property loop of parse_user
parse_user_property(toks, st) ==
    LET cur == st.p
        token == current_token(toks, cur)
        next == advance_token(toks, cur)
    IN  IF Failed(cur) \/ token.type \notin {"IDENTIFIER", "STRING", "AT", "COMMA"}
        THEN Break(st)
        ELSE IF token.type = "COMMA"
        THEN Continue([st EXCEPT !.p = next])
        ELSE IF IsIdentifier(token, S.unique_name)
        THEN LET p1 == assigned_string(toks, next) IN
             Continue(
                IF Failed(p1) THEN [st EXCEPT !.p = p1]
                ELSE [st EXCEPT !.p = p1,
                                !.unique_name = StrValue(Consumed(toks, p1).value)])
        ELSE IF IsIdentifier(token, S.context)
        THEN LET p1 == expect(toks, next, "STRING") IN
             Continue(
                IF Failed(p1) THEN [st EXCEPT !.p = p1]
                ELSE [st EXCEPT !.p = p1,
                                !.context = StrValue(Consumed(toks, p1).value)])
        ELSE IF token.type = "AT"
        THEN Continue(Given(
                [c \in {parse_coordinate(toks, next)} |->
                    IF Failed(c.p) THEN [st EXCEPT !.p = c.p]
                    ELSE [st EXCEPT !.p = c.p, !.position = c.val]]))
        ELSE Break(st)

parse_user(toks, p) ==
    LET RECURSIVE parse_user_properties(_)
        parse_user_properties(st) ==
            Given([it \in {parse_user_property(toks, st)} |->
                IF it.exits THEN it.st ELSE parse_user_properties(it.st)])
    IN  Given([d \in {parse_user_properties(
                [p |-> expect(toks, expect(toks, p, "USER"), "COLON"),
                 unique_name |-> NoneRec, context |-> NoneRec, position |-> NoneRec])} |->
        IF Failed(d.p) THEN Ret(d.p, NoneRec)
        ELSE Ret(d.p, UserDecl(IF Truthy(d.unique_name) THEN d.unique_name.value
                               ELSE S.player,
                               d.context, d.position))])

\* parse_llm_config(init) assigns the settings it finds to the init section;
\* st of its loop holds the parser and the two settings
parse_llm_config(toks, p, init) ==
    LET RECURSIVE parse_llm_settings(_)
        parse_llm_settings(st) ==
            LET token == current_token(toks, st.p)
                p1 == expect(toks, advance_token(toks, st.p), "STRING")
            IN  IF Failed(st.p) \/ token.type # "IDENTIFIER" THEN st
                ELSE IF token.value = S.endpoint
                THEN parse_llm_settings(
                        IF Failed(p1) THEN [st EXCEPT !.p = p1]
                        ELSE [st EXCEPT !.p = p1,
                                        !.llm_endpoint = StrValue(Consumed(toks, p1).value)])
                ELSE IF token.value = S.token
                THEN parse_llm_settings(
                        IF Failed(p1) THEN [st EXCEPT !.p = p1]
                        ELSE [st EXCEPT !.p = p1,
                                        !.llm_token = StrValue(Consumed(toks, p1).value)])
                ELSE st
    IN  Given([d \in {parse_llm_settings(
                [p |-> expect(toks, expect(toks, p, "IDENTIFIER"), "COLON"),
                 llm_endpoint |-> init.llm_endpoint, llm_token |-> init.llm_token])} |->
        Ret(d.p, [init EXCEPT !.llm_endpoint = d.llm_endpoint,
                              !.llm_token = d.llm_token])])

\* the dataclass NPCCondition, its fields in the order they are declared
NPCCondition(condition_type, then_action, operator, value, action_value) ==
    [class |-> "NPCCondition", condition_type |-> condition_type,
     then_action |-> then_action, operator |-> operator, value |-> value,
     action_value |-> action_value]

\* the operator of an NPC condition: GT, LT, GTE, LTE or EQ, else "=="
npc_condition_operator(toks, p) ==
    IF current_token(toks, p).type \in {"GT", "LT", "GTE", "LTE", "EQ"}
    THEN Ret(advance_token(toks, p), StrValue(current_token(toks, p).value))
    ELSE Ret(p, StrValue(<<"=", "=">>))

parse_npc_condition(toks, p) ==
    LET p1 == expect(toks, p, "IF")
        p2 == expect(toks, p1, "IDENTIFIER")
        p3 == expect(toks, p2, "HAS")
        p4 == expect(toks, p3, "IDENTIFIER")
    IN  IF Failed(p4) THEN Ret(p4, NoneRec)
        ELSE LET condition_type == Consumed(toks, p4).value
                 op == IF condition_type = S.item THEN Ret(p4, NoneRec)
                       ELSE npc_condition_operator(toks, p4)
                 p5 == IF condition_type = S.item THEN expect(toks, p4, "STRING")
                       ELSE expect(toks, op.p, "NUMBER")
                 p6 == expect(toks, p5, "THEN")
                 p7 == expect(toks, p6, "IDENTIFIER")
                 p8 == expect(toks, p7, "STRING")
             IN  IF Failed(p8) THEN Ret(p8, NoneRec)
                 ELSE \* the call passes operator and value where the dataclass
                      \* declares then_action and operator
                      Ret(p8, NPCCondition(StrValue(condition_type),
                                           op.val,
                                           TokenValue(Consumed(toks, p5)),
                                           StrValue(Consumed(toks, p7).value),
                                           StrValue(Consumed(toks, p8).value)))

\* one pass of the property loop of parse_npcs
parse_npc_property(toks, st) ==
    LET cur == st.p
        token == current_token(toks, cur)
        next == advance_token(toks, cur)
        string == expect(toks, next, "STRING")
        assigned == assigned_string(toks, next)
    IN  IF Failed(cur) \/ token.type \notin {"IDENTIFIER", "STRING", "IF", "CATCH",
                                            "PLACE", "AT"}
        THEN Break(st)
        ELSE IF IsIdentifier(token, S.unique_name)
        THEN Continue(
                IF Failed(assigned) THEN [st EXCEPT !.p = assigned]
                ELSE [st EXCEPT !.p = assigned,
                         !.unique_name = StrValue(Consumed(toks, assigned).value)])
        ELSE IF token.type = "PLACE"
        THEN Continue(Given(
                [pl \in {parse_placement(toks, expect(toks, next, "AT"))} |->
                    IF Failed(pl.p) THEN [st EXCEPT !.p = pl.p]
                    ELSE [st EXCEPT !.p = pl.p, !.placement = pl.val]]))
        ELSE IF IsIdentifier(token, S.context)
        THEN Continue(
                IF Failed(string) THEN [st EXCEPT !.p = string]
                ELSE [st EXCEPT !.p = string,
                                !.context = StrValue(Consumed(toks, string).value)])
        ELSE IF IsIdentifier(token, S.response)
        THEN Continue(
                IF Failed(string) THEN [st EXCEPT !.p = string]
                ELSE [st EXCEPT !.p = string,
                                !.response = StrValue(Consumed(toks, string).value)])
        ELSE IF IsIdentifier(token, S.state_machine)
        THEN Continue(
                IF Failed(assigned) THEN [st EXCEPT !.p = assigned]
                ELSE [st EXCEPT !.p = assigned,
                         !.state_machine = StrValue(Consumed(toks, assigned).value)])
        ELSE IF IsIdentifier(token, S.emoji)
        THEN Continue(
                IF Failed(assigned) THEN [st EXCEPT !.p = assigned]
                ELSE [st EXCEPT !.p = assigned,
                                !.emoji = StrValue(Consumed(toks, assigned).value)])
        ELSE IF IsIdentifier(token, S.agenda)
        THEN Continue(
                IF Failed(string) THEN [st EXCEPT !.p = string]
                ELSE [st EXCEPT !.p = string,
                                !.agenda = StrValue(Consumed(toks, string).value)])
        ELSE IF token.type = "IF"
        THEN Continue(Given(
                [c \in {parse_npc_condition(toks, cur)} |->
                    IF Failed(c.p) THEN [st EXCEPT !.p = c.p]
                    ELSE [st EXCEPT !.p = c.p, !.conditions = Append(@, c.val)]]))
        ELSE IF token.type = "CATCH"
        THEN Continue(
                IF Failed(string) THEN [st EXCEPT !.p = string]
                ELSE [st EXCEPT !.p = string,
                         !.catch_message = StrValue(Consumed(toks, string).value)])
        ELSE Break(st)

parse_npcs(toks, p) ==
    LET RECURSIVE parse_npc_properties(_)
        parse_npc_properties(st) ==
            Given([it \in {parse_npc_property(toks, st)} |->
                IF it.exits THEN it.st ELSE parse_npc_properties(it.st)])
        RECURSIVE parse_npcs_loop(_)
        parse_npcs_loop(st) ==
            IF Failed(st.p) \/ current_token(toks, st.p).type # "IDENTIFIER" THEN st
            ELSE LET p0 == expect(toks, st.p, "IDENTIFIER") IN
                 Given([d \in {parse_npc_properties(
                             [p |-> expect(toks, p0, "COLON"),
                              unique_name |-> NoneRec, placement |-> NoneRec,
                              context |-> NoneRec, response |-> NoneRec,
                              state_machine |-> NoneRec, emoji |-> NoneRec,
                              agenda |-> NoneRec, conditions |-> <<>>,
                              catch_message |-> NoneRec])} |->
                     IF Failed(d.p) THEN Ret(d.p, st.val)
                     ELSE parse_npcs_loop(
                             Ret(d.p, IF Truthy(d.unique_name)
                                      THEN Append(st.val,
                                              NPCDecl(Consumed(toks, p0).value,
                                                      d.unique_name.value, d.placement,
                                                      d.context, d.response, d.state_machine,
                                                      d.emoji, d.agenda, d.conditions,
                                                      d.catch_message))
                                      ELSE st.val))])
    IN  parse_npcs_loop(Ret(expect(toks, expect(toks, p, "NPC"), "COLON"), <<>>))

\* one pass of the dispatch loop of parse_init_section
parse_init_entry(toks, st) ==
    LET cur == st.p
        init == st.val
        token == current_token(toks, cur)
    IN  IF Failed(cur) \/ token.type = "EOF" THEN Break(st)
        ELSE IF token.type = "WORLD"
        THEN Continue(Given(
                [r \in {parse_world(toks, cur)} |->
                    IF Failed(r.p) THEN Ret(r.p, init)
                    ELSE Ret(r.p, [init EXCEPT !.world = r.val])]))
        ELSE IF IsIdentifier(token, S.llm)
        THEN Continue(parse_llm_config(toks, cur, init))
        ELSE IF token.type = "FURNITURE"
        THEN Continue(Given(
                [r \in {parse_furniture(toks, cur)} |->
                    Ret(r.p, [init EXCEPT !.furniture = @ \o r.val])]))
        ELSE IF token.type = "MYTHICS"
        THEN Continue(Given(
                [r \in {parse_mythics(toks, cur)} |->
                    Ret(r.p, [init EXCEPT !.mythics = @ \o r.val])]))
        ELSE IF token.type = "ITEMS"
        THEN Continue(Given(
                [r \in {parse_items(toks, cur)} |->
                    Ret(r.p, [init EXCEPT !.items = @ \o r.val])]))
        ELSE IF token.type = "MONSTERS"
        THEN Continue(Given(
                [r \in {parse_monsters(toks, cur)} |->
                    Ret(r.p, [init EXCEPT !.monsters = @ \o r.val])]))
        ELSE IF token.type = "USER"
        THEN Continue(Given(
                [r \in {parse_user(toks, cur)} |->
                    IF Failed(r.p) THEN Ret(r.p, init)
                    ELSE Ret(r.p, [init EXCEPT !.user = r.val])]))
        ELSE IF token.type = "NPC"
        THEN Continue(Given(
                [r \in {parse_npcs(toks, cur)} |->
                    Ret(r.p, [init EXCEPT !.npcs = @ \o r.val])]))
        ELSE Break(st)

\* parse_init_section; the value of its dispatch loop is the init section
parse_init_section(toks, p) ==
    LET RECURSIVE parse_init_loop(_)
        parse_init_loop(st) ==
            Given([it \in {parse_init_entry(toks, st)} |->
                IF it.exits THEN it.st ELSE parse_init_loop(it.st)])
    IN  parse_init_loop(
            Ret(expect(toks, expect(toks, p, "INIT"), "COLON"), InitSection))

Quest(name, conditions, action) ==
    [class |-> "Quest", name |-> name, conditions |-> conditions, action |-> action]

QuestsSection(quests) == [class |-> "QuestsSection", quests |-> quests]

EndCondition(condition, result) ==
    [class |-> "EndCondition", condition |-> condition, result |-> result]

EndGameSection(conditions, win_message, lose_message) ==
    [class |-> "EndGameSection", conditions |-> conditions,
     win_message |-> win_message, lose_message |-> lose_message]

OnGameStartSection(title, text_lines, links) ==
    [class |-> "OnGameStartSection", title |-> title, text_lines |-> text_lines,
     links |-> links]

\* str.startswith
startswith(s, prefix) ==
    Len(s) >= Len(prefix) /\ SubSeq(s, 1, Len(prefix)) = prefix

\* the comparison of a `has experience` or `has health` condition, from the
\* token after the attribute
parse_comparison(toks, p, entity) ==
    LET token == current_token(toks, p)
        given == token.type \in {"GT", "LT", "GTE", "LTE", "EQ", "NE"}
        operator == IF given THEN token.value ELSE <<"=", "=">>
        p1 == expect(toks, IF given THEN advance_token(toks, p) ELSE p, "NUMBER")
    IN  IF Failed(p1) THEN Ret(p1, NoneRec)
        ELSE Ret(p1, Condition("comparison", entity, StrValue(operator),
                               NumValue(Consumed(toks, p1).value), NoneRec))

\* a condition, from the token after the entity
parse_condition_of(toks, p, entity) ==
    LET token == current_token(toks, p)
        next == advance_token(toks, p)
    IN  IF token.type = "IDENTIFIER" /\ token.value \in {S.responded, S.responds}
        THEN Ret(next, Condition("responded_to", entity, NoneRec, NoneRec, NoneRec))
        ELSE IF token.type = "IS"
        THEN Given([c \in {parse_coordinate(toks, expect(toks, next, "AT"))} |->
             IF Failed(c.p) THEN c
             ELSE Ret(c.p, Condition("position", entity, NoneRec, NoneRec, c.val))])
        ELSE IF token.type = "HAS"
        THEN LET attr == current_token(toks, next) IN
             IF attr.type = "IDENTIFIER"
                /\ attr.value \in {S.item, S.experience, S.health}
             THEN LET p1 == expect(toks, next, "IDENTIFIER") IN
                  IF attr.value = S.item
                  THEN LET p2 == expect(toks, p1, "STRING") IN
                       IF Failed(p2) THEN Ret(p2, NoneRec)
                       ELSE Ret(p2, Condition("has", entity, NoneRec,
                                       StrValue(Consumed(toks, p2).value), NoneRec))
                  ELSE parse_comparison(toks, p1, entity)
             ELSE LET v == parse_value(toks, next) IN
                  IF Failed(v.p) THEN v
                  ELSE Ret(v.p, Condition("has", entity, NoneRec, v.val, NoneRec))
        ELSE IF IsIdentifier(token, S.talked)
        THEN LET p1 == expect(toks, expect(toks, next, "TO"), "IDENTIFIER") IN
             IF Failed(p1) THEN Ret(p1, NoneRec)
             ELSE Ret(p1, Condition("talked_to", entity, NoneRec,
                                    StrValue(Consumed(toks, p1).value), NoneRec))
        ELSE Ret([p EXCEPT !.err = SyntaxErrorAtLine(token.line)], NoneRec)

parse_condition(toks, p) ==
    IF Failed(p) THEN Ret(p, NoneRec)
    ELSE IF current_token(toks, p).type = "USER"
    THEN parse_condition_of(toks, advance_token(toks, p), S.user)
    ELSE LET p1 == expect(toks, p, "IDENTIFIER") IN
         IF Failed(p1) THEN Ret(p1, NoneRec)
         ELSE parse_condition_of(toks, p1, Consumed(toks, p1).value)

parse_action(toks, p) ==
    LET token == current_token(toks, p) IN
    IF Failed(p) THEN Ret(p, NoneRec)
    ELSE IF token.type = "IDENTIFIER" /\ startswith(token.value, S.talk_)
    THEN Ret(expect(toks, p, "IDENTIFIER"),
             Action("talk", NoneRec, NoneRec, StrValue(token.value)))
    ELSE IF token.type = "LEVEL_UP"
    THEN Ret(advance_token(toks, p), Action("level up", NoneRec, NoneRec, NoneRec))
    ELSE LET p1 == expect(toks, p, "IDENTIFIER") IN
         IF Failed(p1) THEN Ret(p1, NoneRec)
         ELSE Ret(p1, Action("command", StrValue(token.value), NoneRec, NoneRec))

\* condition (and condition)*; the value is the list of the conditions
parse_conditions(toks, p) ==
    LET RECURSIVE parse_and_conditions(_)
        parse_and_conditions(st) ==
            IF Failed(st.p) \/ current_token(toks, st.p).type # "AND" THEN st
            ELSE Given([c \in {parse_condition(toks, advance_token(toks, st.p))} |->
                 IF Failed(c.p) THEN Ret(c.p, st.val)
                 ELSE parse_and_conditions(Ret(c.p, Append(st.val, c.val)))])
    IN  Given([c \in {parse_condition(toks, p)} |->
        IF Failed(c.p) THEN Ret(c.p, <<>>)
        ELSE parse_and_conditions(Ret(c.p, <<c.val>>))])

parse_rule(toks, p) ==
    Given([cs \in {parse_conditions(toks, expect(toks, p, "IF"))} |->
    Given([a \in {parse_action(toks, expect(toks, cs.p, "THEN"))} |->
        IF Failed(a.p) THEN Ret(a.p, NoneRec)
        ELSE Ret(a.p, Rule(cs.val, a.val))])])

parse_rules_section(toks, p) ==
    LET RECURSIVE parse_rules_loop(_)
        parse_rules_loop(st) ==
            IF Failed(st.p) \/ current_token(toks, st.p).type # "IF" THEN st
            ELSE Given([r \in {parse_rule(toks, st.p)} |->
                 IF Failed(r.p) THEN Ret(r.p, st.val)
                 ELSE parse_rules_loop(Ret(r.p, Append(st.val, r.val)))])
    IN  Given([rules \in {parse_rules_loop(
                Ret(expect(toks, expect(toks, p, "RULES"), "COLON"), <<>>))} |->
        IF Failed(rules.p) THEN Ret(rules.p, NoneRec)
        ELSE Ret(rules.p, RulesSection(rules.val))])

parse_quest(toks, p, name) ==
    Given([cs \in {parse_conditions(toks, expect(toks, p, "IF"))} |->
    Given([a \in {parse_action(toks, expect(toks, cs.p, "THEN"))} |->
        IF Failed(a.p) THEN Ret(a.p, NoneRec)
        ELSE Ret(a.p, Quest(name, cs.val, a.val))])])

\* one pass of the loop of parse_quests_section
parse_quests_entry(toks, st) ==
    LET token == current_token(toks, st.p)
        named == token.type = "IDENTIFIER" /\ peek_token(toks, st.p).type = "COLON"
    IN  IF Failed(st.p) \/ token.type \notin {"IF", "IDENTIFIER"} THEN Break(st)
        ELSE Given([q \in {parse_quest(toks,
                IF named THEN advance_token(toks, advance_token(toks, st.p)) ELSE st.p,
                IF named THEN StrValue(token.value) ELSE NoneRec)} |->
             IF Failed(q.p) THEN Continue(Ret(q.p, st.val))
             ELSE Continue(Ret(q.p, Append(st.val, q.val)))])

parse_quests_section(toks, p) ==
    LET RECURSIVE parse_quests_loop(_)
        parse_quests_loop(st) ==
            Given([it \in {parse_quests_entry(toks, st)} |->
                IF it.exits THEN it.st ELSE parse_quests_loop(it.st)])
    IN  Given([quests \in {parse_quests_loop(
                Ret(expect(toks, expect(toks, p, "QUESTS"), "COLON"), <<>>))} |->
        IF Failed(quests.p) THEN Ret(quests.p, NoneRec)
        ELSE Ret(quests.p, QuestsSection(quests.val))])

\* the result of an end-game clause, from the token after the conditions
parse_end_result(toks, p) ==
    IF current_token(toks, p).type # "THEN" THEN Ret(p, NoneRec)
    ELSE LET next == advance_token(toks, p) IN
         IF current_token(toks, next).type = "WIN"
         THEN Ret(expect(toks, expect(toks, advance_token(toks, next), "THE"),
                         "IDENTIFIER"),
                  StrValue(<<"w", "i", "n", " ", "t", "h", "e", " ", "g", "a", "m", "e">>))
         ELSE IF current_token(toks, next).type = "DIE"
         THEN Ret(expect(toks,
                    expect(toks,
                      expect(toks,
                        expect(toks, advance_token(toks, next), "AND"), "LOSE"),
                      "THE"), "IDENTIFIER"),
                  StrValue(<<"d", "i", "e", " ", "a", "n", "d", " ", "l", "o", "s", "e",
                             " ", "t", "h", "e", " ", "g", "a", "m", "e">>))
         ELSE Ret(next, NoneRec)

\* one EndCondition per condition of the clause, each with the result
EndConditions(condition_list, result) ==
    [i \in 1..Len(condition_list) |-> EndCondition(condition_list[i], result)]

\* `name: show "..."`, from the token after the name
parse_show(toks, p) ==
    expect(toks, expect(toks, expect(toks, p, "COLON"), "SHOW"), "STRING")

\* one pass of the loop of parse_end_game_section
parse_end_game_entry(toks, st) ==
    LET cur == st.p
        token == current_token(toks, cur)
        next == advance_token(toks, cur)
    IN  IF Failed(cur) \/ token.type = "EOF" THEN Break(st)
        ELSE IF token.type = "IF"
        THEN Given([cs \in {parse_conditions(toks, next)} |->
             IF Failed(cs.p) THEN Continue([st EXCEPT !.p = cs.p])
             ELSE Given([r \in {parse_end_result(toks, cs.p)} |->
                  Continue(
                     IF Failed(r.p) THEN [st EXCEPT !.p = r.p]
                     ELSE [st EXCEPT !.p = r.p,
                              !.conditions = @ \o EndConditions(cs.val, r.val)])])])
        ELSE IF IsIdentifier(token, S.win_the_game)
        THEN LET p1 == parse_show(toks, next) IN
             Continue(
                IF Failed(p1) THEN [st EXCEPT !.p = p1]
                ELSE [st EXCEPT !.p = p1,
                                !.win_message = StrValue(Consumed(toks, p1).value)])
        ELSE IF IsIdentifier(token, S.lose_the_game)
        THEN LET p1 == parse_show(toks, next) IN
             Continue(
                IF Failed(p1) THEN [st EXCEPT !.p = p1]
                ELSE [st EXCEPT !.p = p1,
                                !.lose_message = StrValue(Consumed(toks, p1).value)])
        ELSE Break(st)

\* parse_end_game_section; st of its loop holds the parser and the locals
parse_end_game_section(toks, p) ==
    LET RECURSIVE parse_end_game_loop(_)
        parse_end_game_loop(st) ==
            Given([it \in {parse_end_game_entry(toks, st)} |->
                IF it.exits THEN it.st ELSE parse_end_game_loop(it.st)])
    IN  Given([d \in {parse_end_game_loop(
                [p |-> expect(toks, expect(toks, p, "END_GAME"), "COLON"),
                 conditions |-> <<>>, win_message |-> NoneRec,
                 lose_message |-> NoneRec])} |->
        IF Failed(d.p) THEN Ret(d.p, NoneRec)
        ELSE Ret(d.p, EndGameSection(d.conditions, d.win_message, d.lose_message))])

\* str(n) of a non-negative int
RECURSIVE str_of_int(_)
str_of_int(n) ==
    IF n < 10 THEN <<Digits[n + 1]>>
    ELSE str_of_int(n \div 10) \o <<Digits[(n % 10) + 1]>>

\* str(value) of a number
str_of_number(value) ==
    IF value.is_float
    THEN str_of_int(value.whole) \o <<".">>
         \o (IF value.frac = <<>> THEN <<"0">> ELSE value.frac)
    ELSE str_of_int(value.whole)

\* what a token adds to title_parts
title_part(token) ==
    CASE token.type = "NUMBER" -> str_of_number(token.value)
      [] token.type = "BOOLEAN" ->
            IF token.value THEN <<"T", "r", "u", "e">> ELSE <<"F", "a", "l", "s", "e">>
      [] token.type = "PERCENTAGE" ->
            IF token.value.whole = 0 /\ token.value.frac = <<>> THEN <<>>
            ELSE str_of_number(token.value)
      [] OTHER -> token.value

\* str.strip
RECURSIVE strip(_)
strip(s) ==
    LET white == {" ", "\t", "\n", "\r"} IN
    IF s # <<>> /\ s[1] \in white THEN strip(Tail(s))
    ELSE IF s # <<>> /\ s[Len(s)] \in white THEN strip(SubSeq(s, 1, Len(s) - 1))
    ELSE s

\* a pass of the scan that takes the token and leaves the cursor on it
parse_title_part_in_place(toks, st) ==
    LET token == current_token(toks, st.p) IN
    IF token.type = "EOF"
       \/ (token.type = "IDENTIFIER" /\ startswith(token.value, S.display_))
    THEN Break(st)
    ELSE Continue(Ret(st.p, Append(st.val, title_part(token))))

\* one pass of the scan of an unquoted title
parse_title_part(toks, st) ==
    LET token == current_token(toks, st.p) IN
    IF token.type = "EOF"
       \/ (token.type = "IDENTIFIER" /\ startswith(token.value, S.display_))
    THEN Break(st)
    ELSE Continue(
            Ret(advance_token(toks, st.p), Append(st.val, title_part(token))))

\* the scan of an unquoted title, up to the next display_ command; its value
\* is title_parts
RECURSIVE parse_title_parts(_, _)
parse_title_parts(toks, st) ==
    Given([it \in {parse_title_part(toks, st)} |->
        IF it.exits THEN it.st ELSE parse_title_parts(toks, it.st)])

\* one pass of the loop of parse_on_game_start_section
parse_on_game_start_entry(toks, st) ==
    LET cur == st.p
        token == current_token(toks, cur)
        p1 == expect(toks, advance_token(toks, cur), "COLON")
    IN  IF Failed(cur) \/ token.type = "EOF" THEN Break(st)
        ELSE IF IsIdentifier(token, S.display_title)
        THEN IF Failed(p1) THEN Continue([st EXCEPT !.p = p1])
             ELSE IF current_token(toks, p1).type = "STRING"
             THEN Continue(
                     [st EXCEPT !.p = expect(toks, p1, "STRING"),
                                !.title = StrValue(current_token(toks, p1).value)])
             ELSE Given([parts \in {parse_title_parts(toks, Ret(p1, <<>>))} |->
                  Given([title \in {strip(join(parts.val))} |->
                      Continue(
                         [st EXCEPT !.p = parts.p,
                                    !.title = IF title = <<>> THEN NoneRec
                                              ELSE StrValue(title)])])])
        ELSE IF IsIdentifier(token, S.display_text)
        THEN LET p2 == expect(toks, p1, "STRING") IN
             Continue(
                IF Failed(p2) THEN [st EXCEPT !.p = p2]
                ELSE [st EXCEPT !.p = p2,
                         !.text_lines = Append(@, Consumed(toks, p2).value)])
        ELSE IF IsIdentifier(token, S.display_link)
        THEN LET p2 == expect(toks, p1, "STRING")
                 p3 == expect(toks, p2, "COMMA")
                 p4 == expect(toks, p3, "STRING")
             IN  Continue(
                    IF Failed(p4) THEN [st EXCEPT !.p = p4]
                    ELSE [st EXCEPT !.p = p4,
                             !.links = Append(@, <<Consumed(toks, p2).value,
                                                   Consumed(toks, p4).value>>)])
        ELSE Break(st)

\* parse_on_game_start_section; st of its loop holds the parser and the locals
parse_on_game_start_section(toks, p) ==
    LET RECURSIVE parse_on_game_start_loop(_)
        parse_on_game_start_loop(st) ==
            Given([it \in {parse_on_game_start_entry(toks, st)} |->
                IF it.exits THEN it.st ELSE parse_on_game_start_loop(it.st)])
    IN  Given([d \in {parse_on_game_start_loop(
                [p |-> expect(toks, expect(toks, p, "ON_GAME_START"), "COLON"),
                 title |-> NoneRec, text_lines |-> <<>>, links |-> <<>>])} |->
        IF Failed(d.p) THEN Ret(d.p, NoneRec)
        ELSE Ret(d.p, OnGameStartSection(d.title, d.text_lines, d.links))])

\* one pass of the dispatch loop of parse
parse_entry(toks, st) ==
    LET p == st.p
        prog == st.val
        token == current_token(toks, p)
    IN  IF Failed(p) \/ token.type = "EOF" THEN Break(st)
        ELSE IF token.type = "LET"
        THEN Continue(Given(
                [r \in {parse_variable(toks, p)} |->
                    IF Failed(r.p) THEN Ret(r.p, prog)
                    ELSE Ret(r.p, [prog EXCEPT
                                     !.variables = Append(@, r.val)])]))
        ELSE IF token.type = "INIT"
        THEN Continue(Given(
                [r \in {parse_init_section(toks, p)} |->
                    IF Failed(r.p) THEN Ret(r.p, prog)
                    ELSE Ret(r.p, [prog EXCEPT !.init_section = r.val])]))
        ELSE IF token.type = "RULES"
        THEN Continue(Given(
                [r \in {parse_rules_section(toks, p)} |->
                    IF Failed(r.p) THEN Ret(r.p, prog)
                    ELSE Ret(r.p, [prog EXCEPT !.rules_section = r.val])]))
        ELSE IF token.type = "QUESTS"
        THEN Continue(Given(
                [r \in {parse_quests_section(toks, p)} |->
                    IF Failed(r.p) THEN Ret(r.p, prog)
                    ELSE Ret(r.p, [prog EXCEPT !.quests_section = r.val])]))
        ELSE IF token.type = "END_GAME"
        THEN Continue(Given(
                [r \in {parse_end_game_section(toks, p)} |->
                    IF Failed(r.p) THEN Ret(r.p, prog)
                    ELSE Ret(r.p, [prog EXCEPT !.end_game_section = r.val])]))
        ELSE IF token.type = "ON_GAME_START"
        THEN Continue(Given(
                [r \in {parse_on_game_start_section(toks, p)} |->
                    IF Failed(r.p) THEN Ret(r.p, prog)
                    ELSE Ret(r.p, [prog EXCEPT
                                     !.on_game_start_section = r.val])]))
        ELSE Continue(Ret([p EXCEPT !.err = SyntaxErrorAtLine(token.line)], prog))

\* Parser(tokens).parse(): the parser at its end, and the Program; the value
\* of the dispatch loop is the program so far
parse(toks) ==
    LET RECURSIVE parse_loop(_)
        parse_loop(st) ==
            Given([it \in {parse_entry(toks, st)} |->
                IF it.exits THEN it.st ELSE parse_loop(it.st)])
    IN  parse_loop(Ret(Parser, Program(<<>>, NoneRec, NoneRec, NoneRec,
                                             NoneRec, NoneRec)))

-----------------------------------------------------------------------------
(* Validator.  A diagnostic is a record of its message's kind and of the   *)
(* values formatted into it.                                               *)

MissingInit == [message |-> "Missing required 'init:' section"]
Duplicate(name) == [message |-> "Duplicate unique_name: {}", name |-> name]
Collision(at, entities) ==
    [message |-> "Collision at {}: {}", pos |-> at, entities |-> entities]
UserPosition == [message |-> "User must have an initial position"]
StaticPlacement(name) ==
    [message |-> "npc-static '{}' must have a placement specified", name |-> name]
UnknownEntity(entity) ==
    [message |-> "Unknown entity referenced in rule: {}", entity |-> entity]

UniqueNames(decls) == [i \in 1..Len(decls) |-> decls[i].unique_name]

\* a loop that compares each name with the one before it only
RECURSIVE check_names_adjacent(_, _, _)
check_names_adjacent(names, unique_names, errs) ==
    IF names = <<>> THEN [unique_names |-> unique_names, errors |-> errs]
    ELSE check_names_adjacent(Tail(names), {Head(names)},
                              IF Head(names) \in unique_names
                              THEN Append(errs, Duplicate(Head(names)))
                              ELSE errs)

\* one of the four loops of validate_uniqueness: the state is the set
\* unique_names and the list of errors
RECURSIVE check_names(_, _, _)
check_names(names, unique_names, errs) ==
    IF names = <<>> THEN [unique_names |-> unique_names, errors |-> errs]
    ELSE check_names(Tail(names), unique_names \cup {Head(names)},
                     IF Head(names) \in unique_names
                     THEN Append(errs, Duplicate(Head(names)))
                     ELSE errs)

\* the last check of validate_uniqueness: the user
check_user_name(init, st) ==
    IF init.user # NoneRec /\ init.user.unique_name \in st.unique_names
    THEN Append(st.errors, Duplicate(init.user.unique_name))
    ELSE st.errors

\* the errors validate_uniqueness appends
validate_uniqueness(init) ==
    LET m == check_names(UniqueNames(init.mythics), {}, <<>>)
        i == check_names(UniqueNames(init.items), m.unique_names, m.errors)
        o == check_names(UniqueNames(init.monsters), i.unique_names, i.errors)
        n == check_names(UniqueNames(init.npcs), o.unique_names, o.errors)
    IN  check_user_name(init, n)

\* entity_positions[pos].append(label), the dict kept in insertion order
\* as a sequence of [pos, entities]
add_position(entity_positions, at, label) ==
    IF \E k \in 1..Len(entity_positions) : entity_positions[k].pos = at
    THEN [k \in 1..Len(entity_positions) |->
            IF entity_positions[k].pos = at
            THEN [entity_positions[k] EXCEPT !.entities = Append(@, label)]
            ELSE entity_positions[k]]
    ELSE Append(entity_positions, [pos |-> at, entities |-> <<label>>])

\* a loop that records the first coordinate of every placement that has one
RECURSIVE collect_positions_of_any_type(_, _, _)
collect_positions_of_any_type(decls, prefix, entity_positions) ==
    IF decls = <<>> THEN entity_positions
    ELSE LET d == Head(decls) IN
         collect_positions_of_any_type(Tail(decls), prefix,
             IF d.placement # NoneRec /\ d.placement.coord1 # NoneRec
             THEN add_position(entity_positions, d.placement.coord1,
                               [prefix |-> prefix, name |-> d.unique_name])
             ELSE entity_positions)

\* one of the four loops of validate_collisions
RECURSIVE collect_positions(_, _, _)
collect_positions(decls, prefix, entity_positions) ==
    IF decls = <<>> THEN entity_positions
    ELSE LET d == Head(decls) IN
         collect_positions(Tail(decls), prefix,
             IF d.placement # NoneRec /\ d.placement.type = "coordinate"
             THEN add_position(entity_positions, d.placement.coord1,
                               [prefix |-> prefix, name |-> d.unique_name])
             ELSE entity_positions)

\* the occupants that are neither items nor mythics
non_pickup(entities) ==
    SelectSeq(entities, LAMBDA e : e.prefix \notin {"item", "mythic"})

RECURSIVE report_collisions(_)
report_collisions(entity_positions) ==
    IF entity_positions = <<>> THEN <<>>
    ELSE LET e == Head(entity_positions) IN
         (IF Len(e.entities) > 1 /\ Len(non_pickup(e.entities)) > 1
          THEN <<Collision(e.pos, e.entities)>>
          ELSE <<>>) \o report_collisions(Tail(entity_positions))

\* a check in which the position of the user counts as an occupant
validate_collisions_with_user(init) ==
    LET m == collect_positions(init.mythics, "mythic", <<>>)
        i == collect_positions(init.items, "item", m)
        o == collect_positions(init.monsters, "monster", i)
        n == collect_positions(init.npcs, "npc", o)
    IN  report_collisions(
            IF init.user # NoneRec /\ init.user.position # NoneRec
            THEN add_position(n, init.user.position,
                              [prefix |-> "user", name |-> init.user.unique_name])
            ELSE n)

\* the errors validate_collisions appends
validate_collisions(init) ==
    LET m == collect_positions(init.mythics, "mythic", <<>>)
        i == collect_positions(init.items, "item", m)
        o == collect_positions(init.monsters, "monster", i)
        n == collect_positions(init.npcs, "npc", o)
    IN  report_collisions(n)

\* the entity of a rule condition is a declared mythic, item, monster or NPC
entity_found(init, entity) ==
    \/ \E k \in 1..Len(init.mythics) : init.mythics[k].unique_name = entity
    \/ \E k \in 1..Len(init.items) : init.items[k].unique_name = entity
    \/ \E k \in 1..Len(init.monsters) : init.monsters[k].unique_name = entity
    \/ \E k \in 1..Len(init.npcs) : init.npcs[k].unique_name = entity

\* a validator without the check of the static NPCs
check_static_npcs_skipped(npcs) == <<>>

RECURSIVE check_static_npcs(_)
check_static_npcs(npcs) ==
    IF npcs = <<>> THEN <<>>
    ELSE (IF Head(npcs).npc_type = S_npc_static /\ Head(npcs).placement = NoneRec
          THEN <<StaticPlacement(Head(npcs).unique_name)>>
          ELSE <<>>) \o check_static_npcs(Tail(npcs))

RECURSIVE check_conditions(_, _)
check_conditions(init, conditions) ==
    IF conditions = <<>> THEN <<>>
    ELSE (IF Head(conditions).entity # S.user
             /\ ~ entity_found(init, Head(conditions).entity)
          THEN <<UnknownEntity(Head(conditions).entity)>>
          ELSE <<>>) \o check_conditions(init, Tail(conditions))

RECURSIVE check_rules(_, _)
check_rules(init, rules) ==
    IF rules = <<>> THEN <<>>
    ELSE check_conditions(init, Head(rules).conditions)
            \o check_rules(init, Tail(rules))

\* the errors validate_semantics appends
validate_semantics(prog) ==
    LET init == prog.init_section IN
    (IF init.user # NoneRec /\ init.user.position = NoneRec
     THEN <<UserPosition>> ELSE <<>>)
    \o check_static_npcs(init.npcs)
    \o (IF prog.rules_section # NoneRec
        THEN check_rules(init, prog.rules_section.rules)
        ELSE <<>>)

-----------------------------------------------------------------------------
(* CodeGenerator.  The generated document is the fixed page and engine      *)
(* around the parts modelled here: the initial game state, a dict written   *)
(* as a record, and the two LLM settings.  A key a dict does not have is    *)
(* undefined, a key whose value is None is NoneRec (null).                  *)

undefined == [type |-> "undefined"]

\* bool(v) of an optional value: None, 0 and '' are false
truth(v) ==
    /\ v # NoneRec
    /\ v.type = "int" => v.value # 0
    /\ v.type = "str" => v.value # <<>>

\* `v or default`
Or(v, default) == IF truth(v) THEN v ELSE default

\* list(coord)
list(coord) == <<coord.x, coord.y>>

Not_now == StrValue(<<"N", "o", "t", " ", "n", "o", "w">>)

placement_to_dict(placement) ==
    CASE placement.type = "all" ->
            [type |-> "all"]
      [] placement.type = "coordinate" ->
            [type |-> "coordinate", coord |-> list(placement.coord1)]
      [] placement.type = "range" ->
            [type |-> "range", coord1 |-> list(placement.coord1),
             coord2 |-> list(placement.coord2)]
      [] placement.type = "random" ->
            [type |-> "random",
             percentage |-> IF placement.percentage # NoneRec
                            THEN placement.percentage
                            ELSE Number(<<"5", "0">>, FALSE)]
      [] OTHER -> [type |-> undefined]

\* the keys position and placement an entity's dict gets from its placement;
\* fallback is the position of an entity without placement, or undefined
placed(placement, fallback) ==
    IF placement # NoneRec
    THEN IF placement.type = "coordinate"
         THEN [position |-> list(placement.coord1), placement |-> undefined]
         ELSE IF placement.type = "random"
         THEN [position |-> undefined,
               placement |-> [type |-> "random", percentage |-> placement.percentage]]
         ELSE [position |-> undefined, placement |-> undefined]
    ELSE [position |-> fallback, placement |-> undefined]

furniture_data(furniture) ==
    [name |-> furniture.name, placement |-> placement_to_dict(furniture.placement)]

mythic_data(mythic) ==
    [unique_name |-> mythic.unique_name,
     can_pickup |-> mythic.can_pickup,
     picked_up |-> FALSE,
     catch_message |-> Or(mythic.catch_message, Not_now),
     position |-> placed(mythic.placement, undefined).position,
     placement |-> placed(mythic.placement, undefined).placement]

item_data(item) ==
    [unique_name |-> item.unique_name,
     item_type |-> item.item_type,
     can_pickup |-> item.can_pickup,
     picked_up |-> FALSE,
     effect |-> item.effect,
     damage |-> Or(item.damage, IntValue(1)),
     catch_message |-> Or(item.catch_message, Not_now),
     position |-> placed(item.placement, undefined).position,
     placement |-> placed(item.placement, undefined).placement]

monster_data(monster) ==
    [unique_name |-> monster.unique_name,
     monster_type |-> monster.monster_type,
     health |-> Or(monster.health, Or(monster.killable_hits, IntValue(1))),
     max_health |-> Or(monster.health, Or(monster.killable_hits, IntValue(1))),
     experience |-> Or(monster.experience, IntValue(0)),
     defeated |-> FALSE,
     position |-> placed(monster.placement, undefined).position,
     placement |-> placed(monster.placement, undefined).placement]

npc_condition_to_dict(condition) ==
    [condition_type |-> condition.condition_type,
     operator |-> condition.operator,
     value |-> condition.value,
     then_action |-> condition.then_action,
     action_value |-> condition.action_value]

\* the position of an NPC without placement: [10, 10] for npc-static
npc_fallback(npc) ==
    IF npc.npc_type = S_npc_static THEN <<10, 10>> ELSE undefined

npc_data(npc) ==
    [unique_name |-> npc.unique_name,
     npc_type |-> npc.npc_type,
     context |-> npc.context,
     response |-> npc.response,
     state_machine |-> Or(npc.state_machine, StrValue(<<"i", "d", "l", "e">>)),
     emoji |-> Or(npc.emoji, StrValue(<<"bust in silhouette">>)),
     agenda |-> npc.agenda,
     conditions |-> [k \in 1..Len(npc.conditions) |->
                        npc_condition_to_dict(npc.conditions[k])],
     catch_message |-> Or(npc.catch_message, Not_now),
     conversation_history |-> <<>>,
     has_responded |-> FALSE,
     position |-> placed(npc.placement, npc_fallback(npc)).position,
     placement |-> placed(npc.placement, npc_fallback(npc)).placement]

condition_to_dict(condition) ==
    [type |-> condition.type,
     entity |-> condition.entity,
     position |-> IF truth(condition.position) THEN list(condition.position)
                  ELSE undefined,
     operator |-> IF truth(condition.operator) THEN condition.operator
                  ELSE undefined,
     value |-> IF condition.value # NoneRec THEN condition.value ELSE undefined]

conditions_to_dicts(conditions) ==
    [k \in 1..Len(conditions) |-> condition_to_dict(conditions[k])]

action_to_dict(action) ==
    [type |-> action.type, command |-> action.command, target |-> action.target,
     value |-> action.value]

end_condition_to_dict(end_condition) ==
    [condition |-> condition_to_dict(end_condition.condition),
     result |-> end_condition.result]

\* state['variables'][name] = value: a key keeps the place of its first
\* assignment and the value of its last
RECURSIVE variables_dict(_, _)
variables_dict(variables, dict) ==
    IF variables = <<>> THEN dict
    ELSE LET var == Head(variables)
             item == [name |-> var.name, value |-> var.value]
         IN  variables_dict(Tail(variables),
                 IF \E k \in 1..Len(dict) : dict[k].name = var.name
                 THEN [k \in 1..Len(dict) |->
                          IF dict[k].name = var.name THEN item ELSE dict[k]]
                 ELSE Append(dict, item))

\* ids that count the quests from 1
quest_id_from_one(i, quest) ==
    IF truth(quest.name) THEN quest.name.value
    ELSE <<"q", "u", "e", "s", "t", "_">> \o str_of_int(i + 1)

\* the id of the quest at the 0-based index i of the quest list
quest_id(i, quest) ==
    IF truth(quest.name) THEN quest.name.value
    ELSE <<"q", "u", "e", "s", "t", "_">> \o str_of_int(i)

quest_data(i, quest) ==
    [id |-> quest_id(i, quest),
     conditions |-> conditions_to_dicts(quest.conditions),
     action |-> action_to_dict(quest.action),
     status |-> "active",
     completed |-> FALSE]

rule_data(i, rule) ==
    [id |-> <<"r", "u", "l", "e", "_">> \o str_of_int(i),
     conditions |-> conditions_to_dicts(rule.conditions),
     action |-> action_to_dict(rule.action),
     triggered |-> FALSE]

user_data(user) ==
    [unique_name |-> IF user # NoneRec THEN user.unique_name ELSE S.player,
     position |-> IF user # NoneRec /\ truth(user.position)
                  THEN list(user.position) ELSE <<50, 50>>,
     health |-> 100,
     experience |-> 0,
     level |-> 1,
     inventory |-> <<>>,
     context |-> IF user # NoneRec THEN user.context ELSE NoneRec,
     talked_to_npcs |-> <<>>,
     showHealthBar |-> FALSE]

end_game_data(section) ==
    IF section = NoneRec THEN [conditions |-> undefined]
    ELSE [conditions |-> [k \in 1..Len(section.conditions) |->
                             end_condition_to_dict(section.conditions[k])],
          win_message |-> section.win_message,
          lose_message |-> section.lose_message]

on_game_start_data(section) ==
    IF section = NoneRec THEN [title |-> undefined]
    ELSE [title |-> section.title, text_lines |-> section.text_lines,
          links |-> section.links]

\* the dict INITIAL_GAME_STATE is the JSON of
generate_game_state(prog) ==
    LET init == prog.init_section
        world == IF init.world # NoneRec THEN init.world ELSE WorldDecl(100, 100)
    IN  [world |-> [width |-> world.width, height |-> world.height],
         user |-> user_data(init.user),
         furniture |-> [k \in 1..Len(init.furniture) |-> furniture_data(init.furniture[k])],
         mythics |-> [k \in 1..Len(init.mythics) |-> mythic_data(init.mythics[k])],
         items |-> [k \in 1..Len(init.items) |-> item_data(init.items[k])],
         monsters |-> [k \in 1..Len(init.monsters) |-> monster_data(init.monsters[k])],
         npcs |-> [k \in 1..Len(init.npcs) |-> npc_data(init.npcs[k])],
         variables |-> variables_dict(prog.variables, <<>>),
         quests |-> IF prog.quests_section = NoneRec THEN <<>>
                    ELSE [k \in 1..Len(prog.quests_section.quests) |->
                             quest_data(k - 1, prog.quests_section.quests[k])],
         rules |-> IF prog.rules_section = NoneRec THEN <<>>
                   ELSE [k \in 1..Len(prog.rules_section.rules) |->
                            rule_data(k - 1, prog.rules_section.rules[k])],
         end_game |-> end_game_data(prog.end_game_section),
         on_game_start |-> on_game_start_data(prog.on_game_start_section)]

\* the document: the initial state, and the two settings generate_game_engine
\* puts in place of its placeholders
generate(prog) ==
    [INITIAL_GAME_STATE |-> generate_game_state(prog),
     llm_endpoint |-> Or(prog.init_section.llm_endpoint, NoneRec),
     llm_token |-> Or(prog.init_section.llm_token, NoneRec)]

-----------------------------------------------------------------------------
(* The lexer as a state machine: one action per iteration of the loop of   *)
(* tokenize, and one for the EOF token and the return.                      *)

Self == [text |-> text, pos |-> pos, line |-> line, column |-> column,
         tokens |-> tokens]

TokenizeIteration ==
    /\ pc = "tokenize"
    /\ pos < Len(text)
    /\ LET r == tokenize_iteration(Self) IN
         /\ pos' = r.lx.pos
         /\ line' = r.lx.line
         /\ column' = r.lx.column
         /\ tokens' = r.lx.tokens
         /\ raised' = r.raised
         /\ pc' = IF r.raised = NoneRec THEN "tokenize" ELSE "except"
    /\ UNCHANGED <<argv, input_fs, output_fs, alerts, cursor, html, game, done, text, program, errors,
                   output_file, stdout, exit_code>>

TokenizeReturn ==
    /\ pc = "tokenize"
    /\ pos >= Len(text)
    /\ tokens' = tokenize_return(Self).tokens
    /\ pc' = "parse"
    /\ done' = Append(done, "tokenize")
    /\ UNCHANGED <<argv, input_fs, output_fs, alerts, cursor, html, game, text, pos, line, column,
                   raised, program, errors, output_file, stdout, exit_code>>

-----------------------------------------------------------------------------
(* The validator as a state machine: validate() and the three checks it    *)
(* calls.                                                                  *)

\* a validate that returns at once on a program without init section, and
\* reports nothing
ValidateReturnsSilently ==
    /\ pc = "validate"
    /\ program.init_section = NoneRec
    /\ done' = Append(done, "validate")
    /\ pc' = "check_errors"
    /\ UNCHANGED <<argv, input_fs, output_fs, alerts, cursor, html, game, text, pos, line, column, tokens,
                   raised, program, errors, output_file, stdout, exit_code>>

ValidateMissingInit ==
    /\ pc = "validate"
    /\ program.init_section = NoneRec
    /\ errors' = Append(errors, MissingInit)
    /\ done' = Append(done, "validate")
    /\ pc' = "check_errors"
    /\ UNCHANGED <<argv, input_fs, output_fs, alerts, cursor, html, game, text, pos, line, column, tokens,
                   raised, program, output_file, stdout, exit_code>>

ValidateUniqueness ==
    /\ pc = "validate"
    /\ program.init_section # NoneRec
    /\ errors' = errors \o validate_uniqueness(program.init_section)
    /\ done' = Append(done, "validate_uniqueness")
    /\ pc' = "validate_collisions"
    /\ UNCHANGED <<argv, input_fs, output_fs, alerts, cursor, html, game, text, pos, line, column, tokens,
                   raised, program, output_file, stdout, exit_code>>

ValidateCollisions ==
    /\ pc = "validate_collisions"
    /\ errors' = errors \o validate_collisions(program.init_section)
    /\ done' = Append(done, "validate_collisions")
    /\ pc' = "validate_semantics"
    /\ UNCHANGED <<argv, input_fs, output_fs, alerts, cursor, html, game, text, pos, line, column, tokens,
                   raised, program, output_file, stdout, exit_code>>

ValidateSemantics ==
    /\ pc = "validate_semantics"
    /\ errors' = errors \o validate_semantics(program)
    /\ done' = done \o <<"validate_semantics", "validate">>
    /\ pc' = "check_errors"
    /\ UNCHANGED <<argv, input_fs, output_fs, alerts, cursor, html, game, text, pos, line, column, tokens,
                   raised, program, output_file, stdout, exit_code>>

\* The programs the validator is run on: at most MaxEntities declarations,
\* with names that are equal and names that differ in case only
Names == {<<"a">>, <<"A">>}

ValidatorPlacements ==
    { NoneRec,
      Placement("coordinate", Coord(5, 5), NoneRec, NoneRec),
      Placement("random", NoneRec, NoneRec,
                [is_float |-> FALSE, whole |-> 50, frac |-> <<>>]) }

\* the placements of the monsters: those, and a second coordinate, a range
\* that starts at the first coordinate, and `all`
MonsterPlacements ==
    ValidatorPlacements
    \cup { Placement("coordinate", Coord(6, 6), NoneRec, NoneRec),
           Placement("range", Coord(5, 5), Coord(6, 6), NoneRec),
           Placement("all", NoneRec, NoneRec, NoneRec) }

Declarations ==
    {MythicItem(n, p, FALSE, NoneRec) : n \in Names, p \in ValidatorPlacements}
    \cup {ItemDecl(<<"i">>, n, p, FALSE, NoneRec, NoneRec, NoneRec) :
             n \in Names, p \in ValidatorPlacements}
    \cup {MonsterDecl(n, S.monster_static, p, NoneRec, NoneRec, NoneRec) :
             n \in Names, p \in MonsterPlacements}
    \cup UNION {{NPCDecl(t, n, p, NoneRec, NoneRec, NoneRec, NoneRec, NoneRec,
                         <<>>, NoneRec) : n \in Names, p \in ValidatorPlacements} :
                t \in {S_npc_static, S_npc_dynamic}}

\* the init sections: mythics, items, monsters and NPCs, at most MaxEntities
\* in all, and a user or none
InitSections ==
    LET Classes == <<"MythicItem", "ItemDecl", "MonsterDecl", "NPCDecl">>
        Rank(d) == CHOOSE k \in 1..4 : Classes[k] = d.class
        Lists == {ds \in UNION {[1..k -> Declarations] : k \in 0..MaxEntities} :
                     \A i \in 1..Len(ds) : \A j \in i..Len(ds) :
                         Rank(ds[i]) <= Rank(ds[j])}
        OfClass(ds, class) == SelectSeq(ds, LAMBDA d : d.class = class)
        Users == {NoneRec} \cup {UserDecl(n, NoneRec, p) :
                                    n \in {S.player, <<"a">>},
                                    p \in {NoneRec, Coord(5, 5)}}
    IN  {[InitSection EXCEPT !.mythics = OfClass(ds, "MythicItem"),
                             !.items = OfClass(ds, "ItemDecl"),
                             !.monsters = OfClass(ds, "MonsterDecl"),
                             !.npcs = OfClass(ds, "NPCDecl"),
                             !.user = u] : ds \in Lists, u \in Users}

\* a program with an init section or none, and with no rule, a rule on the
\* user or a rule on the entity a
ValidatorPrograms ==
    LET RuleOn(entity) ==
            Rule(<<Condition("position", entity, NoneRec, NoneRec, Coord(5, 5))>>,
                 Action("level up", NoneRec, NoneRec, NoneRec))
    IN  {Program(<<>>, i, r, NoneRec, NoneRec, NoneRec) :
            i \in InitSections \cup {NoneRec},
            r \in {NoneRec, RulesSection(<<RuleOn(S.user)>>),
                   RulesSection(<<RuleOn(<<"a">>)>>)}}

\* Validator(program) constructed on a program, validate about to run
InitValidate ==
    /\ argv = 2
    /\ input_fs = "ok"
    /\ output_fs = "ok"
    /\ pc = "validate"
    /\ done = <<>>
    /\ text = <<>>
    /\ pos = 0
    /\ line = 1
    /\ column = 1
    /\ tokens = <<>>
    /\ raised = NoneRec
    /\ program \in ValidatorPrograms
    /\ errors = <<>>
    /\ output_file = "untouched"
    /\ stdout = <<>>
    /\ exit_code = None
    /\ html = NoneRec
    /\ game = NoneRec
    /\ alerts = <<>>
    /\ cursor = 0

NextValidate ==
    \/ ValidateMissingInit
    \/ ValidateUniqueness
    \/ ValidateCollisions
    \/ ValidateSemantics

SpecValidate == InitValidate /\ [][NextValidate]_vars

\* The pieces the lexer's inputs are made of
Pieces ==
    { <<"l", "e", "v", "e", "l">>, <<"L", "e", "v", "e", "l">>,
      <<" ", "u", "p">>, <<" ">>, <<"x">>, <<"U", "s", "e", "r">>,
      <<"\n">>, <<"\"">>, <<"'">>, <<"\\">>, <<"#">>,
      <<"@">>, <<"!">>, <<"=">>, <<"7">>, <<".">>, <<"%">> }

RECURSIVE Texts(_)
Texts(n) ==
    IF n = 0 THEN {<<>>}
    ELSE LET shorter == Texts(n - 1) IN
         shorter \cup {p \o t : p \in Pieces, t \in shorter}

\* Source lines of the language, as the lexer meets them
LexScenarios ==
    {
      \* level up x
      <<"l", "e", "v", "e", "l", " ", "u", "p", " ", "x">>,
      \* LEVEL UP
      <<"L", "E", "V", "E", "L", " ", "U", "P">>,
      \* if user has experience > 10 then level up
      <<"i", "f", " ", "u", "s", "e", "r", " ", "h", "a", "s", " ", "e", "x", "p", "e", "r", "i", "e", "n", "c", "e", " ", ">", " ", "1", "0", " ", "t", "h", "e", "n", " ", "l", "e", "v", "e", "l", " ", "u", "p">>,
      \* x >= 1 != 2 <= 3 == 4 !
      <<"x", " ", ">", "=", " ", "1", " ", "!", "=", " ", "2", " ", "<", "=", " ", "3", " ", "=", "=", " ", "4", " ", "!">>,
      \* name = "unterminated
      <<"n", "a", "m", "e", " ", "=", " ", "\"", "u", "n", "t", "e", "r", "m", "i", "n", "a", "t", "e", "d">>
    }

LexInputs == Texts(MaxPieces) \cup LexScenarios

\* Lexer(text) constructed on a text, tokenize about to run
InitLex ==
    /\ argv = 2
    /\ input_fs = "ok"
    /\ output_fs = "ok"
    /\ pc = "tokenize"
    /\ done = <<"read">>
    /\ text \in LexInputs
    /\ pos = 0
    /\ line = 1
    /\ column = 1
    /\ tokens = <<>>
    /\ raised = NoneRec
    /\ program = NoneRec
    /\ errors = <<>>
    /\ output_file = "untouched"
    /\ stdout = <<>>
    /\ exit_code = None
    /\ html = NoneRec
    /\ game = NoneRec
    /\ alerts = <<>>
    /\ cursor = 0

NextLex == TokenizeIteration \/ TokenizeReturn

SpecLex == InitLex /\ [][NextLex]_vars

-----------------------------------------------------------------------------
(* The driver main(). *)

\* print(...): the lines of stdout, by kind
Line(kind, arg) == [kind |-> kind, arg |-> arg]

\* the three lines printed when no input file is given
usage == <<Line("Usage: python compile_dungeon.py <input_file> [output_file]", NoneRec),
           Line("  input_file:  DSL source file to compile", NoneRec),
           Line("  output_file: Output HTML file (default: game.html)", NoneRec)>>

\* `if validator.errors:` is never taken
has_errors_never(errs) == FALSE

\* `if validator.errors:`
has_errors(errs) == errs # <<>>

\* only the first diagnostic is printed
report_first_error(errs) ==
    <<Line("Compilation errors found:", NoneRec), Line("  ERROR: {}", errs[1])>>

\* the lines printed for the validator's diagnostics
report_errors(errs) ==
    <<Line("Compilation errors found:", NoneRec)>>
    \o [i \in 1..Len(errs) |-> Line("  ERROR: {}", errs[i])]

\* an except clause that lets main() return
except_clause_returns(exc) ==
    [stdout |-> <<Line("Error: {}", exc)>>, exit_code |-> 0]

\* the except clauses of main(): what is printed, and the exit status
except_clause(exc) ==
    CASE exc.type = "FileNotFoundError" ->
            [stdout |-> <<Line("Error: File '{input_file}' not found", NoneRec)>>,
             exit_code |-> 1]
      [] exc.type = "SyntaxError" ->
            [stdout |-> <<Line("Syntax Error: {}", exc)>>, exit_code |-> 1]
      [] OTHER ->
            [stdout |-> <<Line("Error: {}", exc)>>, exit_code |-> 1]

\* len(sys.argv) < 2: usage and exit(1)
Usage ==
    /\ pc = "start"
    /\ argv < 2
    /\ stdout' = stdout \o usage
    /\ exit_code' = 1
    /\ pc' = "exit"
    /\ UNCHANGED <<argv, input_fs, output_fs, alerts, cursor, html, game, done, text, pos, line, column,
                   tokens, raised, program, errors, output_file>>

\* open(input_file) and f.read(), then Lexer(source_code)
ReadInput ==
    /\ pc = "start"
    /\ argv >= 2
    /\ CASE input_fs = "ok" ->
              /\ done' = Append(done, "read")
              /\ pc' = "tokenize"
              /\ UNCHANGED raised
         [] input_fs = "missing" ->
              /\ raised' = [type |-> "FileNotFoundError"]
              /\ pc' = "except"
              /\ UNCHANGED done
         [] OTHER ->
              /\ raised' = [type |-> "OSError"]
              /\ pc' = "except"
              /\ UNCHANGED done
    /\ UNCHANGED <<argv, input_fs, output_fs, alerts, cursor, html, game, text, pos, line, column, tokens,
                   program, errors, output_file, stdout, exit_code>>

\* Parser(tokens).parse()
Parse ==
    /\ pc = "parse"
    /\ \E r \in {parse(tokens)} :
         /\ cursor' = r.p.pos
         /\ IF Failed(r.p)
            THEN /\ raised' = r.p.err
                 /\ pc' = "except"
                 /\ UNCHANGED <<program, done>>
            ELSE /\ program' = r.val
                 /\ done' = Append(done, "parse")
                 /\ pc' = "validate"
                 /\ UNCHANGED raised
    /\ UNCHANGED <<argv, input_fs, output_fs, alerts, html, game, text, pos, line, column, tokens,
                   errors, output_file, stdout, exit_code>>

\* the diagnostics are printed and sys.exit(1) leaves main(): SystemExit is
\* not an Exception, so no except clause runs
CompilationErrors ==
    /\ pc = "check_errors"
    /\ has_errors(errors)
    /\ stdout' = stdout \o report_errors(errors)
    /\ exit_code' = 1
    /\ pc' = "exit"
    /\ UNCHANGED <<argv, input_fs, output_fs, alerts, cursor, html, game, done, text, pos, line, column,
                   tokens, raised, program, errors, output_file>>

\* CodeGenerator(program).generate()
\* a generator that reads the command line and writes the number of
\* arguments into the document
GenerateReadsArguments ==
    /\ pc = "check_errors"
    /\ ~has_errors(errors)
    /\ program.init_section # NoneRec
    /\ html' = [generate(program) EXCEPT !.llm_token = IntValue(argv)]
    /\ done' = Append(done, "generate")
    /\ pc' = "write"
    /\ UNCHANGED <<argv, input_fs, output_fs, alerts, cursor, game, text, pos, line, column, tokens,
                   raised, program, errors, output_file, stdout, exit_code>>

\* CodeGenerator(program).generate(); generate_game_state reads init.world,
\* an AttributeError when the program has no init section
Generate ==
    /\ pc = "check_errors"
    /\ ~has_errors(errors)
    /\ IF program.init_section = NoneRec
       THEN /\ raised' = AttributeError
            /\ pc' = "except"
            /\ UNCHANGED <<html, done>>
       ELSE /\ html' = generate(program)
            /\ done' = Append(done, "generate")
            /\ pc' = "write"
            /\ UNCHANGED raised
    /\ UNCHANGED <<argv, input_fs, output_fs, alerts, cursor, game, text, pos, line, column, tokens,
                   program, errors, output_file, stdout, exit_code>>

\* open(output_file, 'w') and f.write(html_output)
WriteOutput ==
    /\ pc = "write"
    /\ CASE output_fs = "ok" ->
              /\ output_file' = "written"
              /\ done' = Append(done, "write")
              /\ pc' = "success"
              /\ UNCHANGED raised
         [] output_fs = "missing" ->
              /\ raised' = [type |-> "FileNotFoundError"]
              /\ pc' = "except"
              /\ UNCHANGED <<output_file, done>>
         [] output_fs = "open_fails" ->
              /\ raised' = [type |-> "OSError"]
              /\ pc' = "except"
              /\ UNCHANGED <<output_file, done>>
         [] OTHER ->
              /\ output_file' = "truncated"
              /\ raised' = [type |-> "OSError"]
              /\ pc' = "except"
              /\ UNCHANGED done
    /\ UNCHANGED <<argv, input_fs, output_fs, alerts, cursor, html, game, text, pos, line, column, tokens,
                   program, errors, stdout, exit_code>>

\* the last print; main() returns and the process exits with status 0
Success ==
    /\ pc = "success"
    /\ stdout' = Append(stdout, Line("Successfully compiled {input_file} to {output_file}", NoneRec))
    /\ exit_code' = 0
    /\ pc' = "exit"
    /\ UNCHANGED <<argv, input_fs, output_fs, alerts, cursor, html, game, done, text, pos, line, column,
                   tokens, raised, program, errors, output_file>>

\* except FileNotFoundError / SyntaxError / Exception: print and sys.exit(1)
Except ==
    /\ pc = "except"
    /\ stdout' = stdout \o except_clause(raised).stdout
    /\ exit_code' = except_clause(raised).exit_code
    /\ pc' = "exit"
    /\ UNCHANGED <<argv, input_fs, output_fs, alerts, cursor, html, game, done, text, pos, line, column,
                   tokens, raised, program, errors, output_file>>

\* The sections the input files are made of
Sections ==
    {
      \* a minimal init section
      <<"i", "n", "i", "t", ":", " ", "u", "s", "e", "r", ":", " ", "a", "t", " ", "(", "1", ",", "1", ")", "\n">>,
      \* two items of one name, and a user without a position
      <<"i", "n", "i", "t", ":", " ", "i", "t", "e", "m", "s", ":", " ", "k", "e", "y", ":", " ", "u", "n", "i", "q", "u", "e", "_", "n", "a", "m", "e", " ", "=", " ", "\"", "a", "\"", " ", "k", "e", "y", ":", " ", "u", "n", "i", "q", "u", "e", "_", "n", "a", "m", "e", " ", "=", " ", "\"", "a", "\"", " ", "u", "s", "e", "r", ":", "\n">>,
      \* a comparison rule
      <<"r", "u", "l", "e", "s", ":", " ", "i", "f", " ", "u", "s", "e", "r", " ", "h", "a", "s", " ", "e", "x", "p", "e", "r", "i", "e", "n", "c", "e", " ", ">", " ", "1", "0", " ", "t", "h", "e", "n", " ", "l", "e", "v", "e", "l", " ", "u", "p", "\n">>,
      \* a position rule
      <<"r", "u", "l", "e", "s", ":", " ", "i", "f", " ", "u", "s", "e", "r", " ", "i", "s", " ", "a", "t", " ", "(", "1", ",", "1", ")", " ", "t", "h", "e", "n", " ", "l", "e", "v", "e", "l", "\n">>,
      \* a character the lexer does not know
      <<"l", "e", "t", " ", "x", " ", "=", " ", "@", "\n">>,
      \* a rule on an entity that is not declared
      <<"r", "u", "l", "e", "s", ":", " ", "i", "f", " ", "g", "h", "o", "s", "t", " ", "i", "s", " ", "a", "t", " ", "(", "1", ",", "1", ")", " ", "t", "h", "e", "n", " ", "l", "e", "v", "e", "l", "\n">>,
      \* a string that ends in a backslash
      <<"l", "e", "t", " ", "s", " ", "=", " ", "\"", "\\">>
    }

\* the files of at most n sections
RECURSIVE Files(_)
Files(n) ==
    IF n = 0 THEN {<<>>}
    ELSE LET shorter == Files(n - 1) IN
         shorter \cup {f \o s : f \in shorter, s \in Sections}

\* the rules clauses `if <entity> has <attr> <op>? <number> then level up`;
\* op is <<>> when the operator is left out
ComparisonClauses ==
    [entity : {S.user, <<"w", "i", "z">>},
     attr : {S.experience, S.health},
     op : {<<>>, <<">">>, <<"<", "=">>, <<"=", "=">>, <<"!", "=">>},
     number : {<<"1", "0">>}]

\* the source text of a clause
ClauseText(c) ==
    <<"r", "u", "l", "e", "s", ":", " ", "i", "f", " ">> \o c.entity
    \o <<" ", "h", "a", "s", " ">> \o c.attr \o <<" ">>
    \o (IF c.op = <<>> THEN <<>> ELSE c.op \o <<" ">>) \o c.number
    \o <<" ", "t", "h", "e", "n", " ", "l", "e", "v", "e", "l", " ", "u", "p">>

\* whole source files, by what they hold
Programs ==
    [
      \* a quest on an entity that is not declared
      quest_on_ghost |->
        <<"i", "n", "i", "t", ":", " ", "u", "s", "e", "r", ":", " ", "a", "t", " ", "(", "1", ",", "1", ")", "\n", "q", "u", "e", "s", "t", "s", ":", " ", "i", "f", " ", "g", "h", "o", "s", "t", " ", "i", "s", " ", "a", "t", " ", "(", "1", ",", "1", ")", " ", "t", "h", "e", "n", " ", "l", "e", "v", "e", "l">>,
      \* an end-game clause on an entity that is not declared
      end_on_ghost |->
        <<"i", "n", "i", "t", ":", " ", "u", "s", "e", "r", ":", " ", "a", "t", " ", "(", "1", ",", "1", ")", "\n", "e", "n", "d", "_", "g", "a", "m", "e", ":", " ", "i", "f", " ", "g", "h", "o", "s", "t", " ", "i", "s", " ", "a", "t", " ", "(", "1", ",", "1", ")", " ", "t", "h", "e", "n", " ", "w", "i", "n", " ", "t", "h", "e", " ", "g", "a", "m", "e">>,
      \* an init section without declarations
      no_user |->
        <<"i", "n", "i", "t", ":">>,
      \* an npc-static without placement
      static_unplaced |->
        <<"i", "n", "i", "t", ":", " ", "u", "s", "e", "r", ":", " ", "a", "t", " ", "(", "1", ",", "1", ")", " ", "n", "p", "c", ":", " ", "n", "p", "c", "-", "s", "t", "a", "t", "i", "c", ":", " ", "u", "n", "i", "q", "u", "e", "_", "n", "a", "m", "e", " ", "=", " ", "\"", "a", "\"">>,
      \* an npc-static at a coordinate
      static_placed |->
        <<"i", "n", "i", "t", ":", " ", "u", "s", "e", "r", ":", " ", "a", "t", " ", "(", "1", ",", "1", ")", " ", "n", "p", "c", ":", " ", "n", "p", "c", "-", "s", "t", "a", "t", "i", "c", ":", " ", "u", "n", "i", "q", "u", "e", "_", "n", "a", "m", "e", " ", "=", " ", "\"", "a", "\"", " ", "p", "l", "a", "c", "e", " ", "a", "t", " ", "(", "2", ",", "2", ")">>,
      \* an npc-dynamic without placement
      dynamic_unplaced |->
        <<"i", "n", "i", "t", ":", " ", "u", "s", "e", "r", ":", " ", "a", "t", " ", "(", "1", ",", "1", ")", " ", "n", "p", "c", ":", " ", "n", "p", "c", "-", "d", "y", "n", "a", "m", "i", "c", ":", " ", "u", "n", "i", "q", "u", "e", "_", "n", "a", "m", "e", " ", "=", " ", "\"", "a", "\"">>,
      \* an NPC whose type is written NPC-Static, without placement
      static_cased |->
        <<"i", "n", "i", "t", ":", " ", "u", "s", "e", "r", ":", " ", "a", "t", " ", "(", "1", ",", "1", ")", " ", "n", "p", "c", ":", " ", "N", "P", "C", "-", "S", "t", "a", "t", "i", "c", ":", " ", "u", "n", "i", "q", "u", "e", "_", "n", "a", "m", "e", " ", "=", " ", "\"", "a", "\"">>,
      \* a named quest, an anonymous one and a named one
      quests_mixed |->
        <<"i", "n", "i", "t", ":", " ", "u", "s", "e", "r", ":", " ", "a", "t", " ", "(", "1", ",", "1", ")", "\n", "q", "u", "e", "s", "t", "s", ":", " ", "a", ":", " ", "i", "f", " ", "u", "s", "e", "r", " ", "i", "s", " ", "a", "t", " ", "(", "1", ",", "1", ")", " ", "t", "h", "e", "n", " ", "l", "e", "v", "e", "l", " ", "i", "f", " ", "u", "s", "e", "r", " ", "i", "s", " ", "a", "t", " ", "(", "2", ",", "2", ")", " ", "t", "h", "e", "n", " ", "l", "e", "v", "e", "l", " ", "b", ":", " ", "i", "f", " ", "u", "s", "e", "r", " ", "i", "s", " ", "a", "t", " ", "(", "3", ",", "3", ")", " ", "t", "h", "e", "n", " ", "l", "e", "v", "e", "l">>,
      \* a named quest on an item
      quest_find_key |->
        <<"i", "n", "i", "t", ":", " ", "u", "s", "e", "r", ":", " ", "a", "t", " ", "(", "1", ",", "1", ")", "\n", "q", "u", "e", "s", "t", "s", ":", " ", "f", "i", "n", "d", "_", "k", "e", "y", ":", " ", "i", "f", " ", "u", "s", "e", "r", " ", "h", "a", "s", " ", "i", "t", "e", "m", " ", "\"", "k", "e", "y", "\"", " ", "t", "h", "e", "n", " ", "t", "a", "l", "k", "-", "s", "t", "a", "t", "i", "c">>,
      \* an npc-static at a coordinate, with a comma between its properties
      npc_comma |->
        <<"i", "n", "i", "t", ":", " ", "u", "s", "e", "r", ":", " ", "a", "t", " ", "(", "1", ",", "1", ")", " ", "n", "p", "c", ":", " ", "n", "p", "c", "-", "s", "t", "a", "t", "i", "c", ":", " ", "u", "n", "i", "q", "u", "e", "_", "n", "a", "m", "e", " ", "=", " ", "\"", "a", "\"", ",", " ", "p", "l", "a", "c", "e", " ", "a", "t", " ", "(", "2", ",", "2", ")">>,
      \* an npc-static with a condition phrase on an item
      npc_condition |->
        <<"i", "n", "i", "t", ":", " ", "u", "s", "e", "r", ":", " ", "a", "t", " ", "(", "1", ",", "1", ")", " ", "n", "p", "c", ":", " ", "n", "p", "c", "-", "s", "t", "a", "t", "i", "c", ":", " ", "u", "n", "i", "q", "u", "e", "_", "n", "a", "m", "e", " ", "=", " ", "\"", "a", "\"", " ", "p", "l", "a", "c", "e", " ", "a", "t", " ", "(", "2", ",", "2", ")", " ", "i", "f", " ", "u", "s", "e", "r", " ", "h", "a", "s", " ", "i", "t", "e", "m", " ", "\"", "k", "e", "y", "\"", " ", "t", "h", "e", "n", " ", "r", "e", "s", "p", "o", "n", "s", "e", " ", "\"", "h", "i", "\"">>,
      \* a user with a name and a position
      user_named |->
        <<"i", "n", "i", "t", ":", " ", "u", "s", "e", "r", ":", " ", "u", "n", "i", "q", "u", "e", "_", "n", "a", "m", "e", " ", "=", " ", "\"", "u", "\"", " ", "a", "t", " ", "(", "1", ",", "1", ")">>,
      \* the same user, with a comma between its properties
      user_comma |->
        <<"i", "n", "i", "t", ":", " ", "u", "s", "e", "r", ":", " ", "u", "n", "i", "q", "u", "e", "_", "n", "a", "m", "e", " ", "=", " ", "\"", "u", "\"", ",", " ", "a", "t", " ", "(", "1", ",", "1", ")">>,
      \* an npc-dynamic placed at random, always
      npc_random |->
        <<"i", "n", "i", "t", ":", " ", "u", "s", "e", "r", ":", " ", "a", "t", " ", "(", "1", ",", "1", ")", " ", "n", "p", "c", ":", " ", "n", "p", "c", "-", "d", "y", "n", "a", "m", "i", "c", ":", " ", "u", "n", "i", "q", "u", "e", "_", "n", "a", "m", "e", " ", "=", " ", "\"", "a", "\"", " ", "p", "l", "a", "c", "e", " ", "a", "t", " ", "r", "a", "n", "d", "o", "m", "(", "1", "0", "0", "%", ")">>,
      \* an end-game clause without a result
      end_no_result |->
        <<"i", "n", "i", "t", ":", " ", "u", "s", "e", "r", ":", " ", "a", "t", " ", "(", "1", ",", "1", ")", "\n", "e", "n", "d", "_", "g", "a", "m", "e", ":", " ", "i", "f", " ", "u", "s", "e", "r", " ", "i", "s", " ", "a", "t", " ", "(", "2", ",", "2", ")">>,
      \* an end-game clause that wins the game
      end_win |->
        <<"i", "n", "i", "t", ":", " ", "u", "s", "e", "r", ":", " ", "a", "t", " ", "(", "1", ",", "1", ")", "\n", "e", "n", "d", "_", "g", "a", "m", "e", ":", " ", "i", "f", " ", "u", "s", "e", "r", " ", "i", "s", " ", "a", "t", " ", "(", "2", ",", "2", ")", " ", "t", "h", "e", "n", " ", "w", "i", "n", " ", "t", "h", "e", " ", "g", "a", "m", "e">>,
      \* a monster with health 0
      monster_health_0 |->
        <<"i", "n", "i", "t", ":", " ", "m", "o", "n", "s", "t", "e", "r", "s", ":", " ", "m", "o", "n", "s", "t", "e", "r", "-", "s", "t", "a", "t", "i", "c", ":", " ", "u", "n", "i", "q", "u", "e", "_", "n", "a", "m", "e", " ", "=", " ", "\"", "m", "\"", " ", "h", "e", "a", "l", "t", "h", " ", "0">>,
      \* a monster killable in 3 hits
      monster_killable |->
        <<"i", "n", "i", "t", ":", " ", "m", "o", "n", "s", "t", "e", "r", "s", ":", " ", "m", "o", "n", "s", "t", "e", "r", "-", "s", "t", "a", "t", "i", "c", ":", " ", "u", "n", "i", "q", "u", "e", "_", "n", "a", "m", "e", " ", "=", " ", "\"", "m", "\"", " ", "k", "i", "l", "l", "a", "b", "l", "e", " ", "3", " ", "h", "i", "t">>,
      \* a monster with health 5, then killable in 3 hits
      monster_health_killable |->
        <<"i", "n", "i", "t", ":", " ", "m", "o", "n", "s", "t", "e", "r", "s", ":", " ", "m", "o", "n", "s", "t", "e", "r", "-", "s", "t", "a", "t", "i", "c", ":", " ", "u", "n", "i", "q", "u", "e", "_", "n", "a", "m", "e", " ", "=", " ", "\"", "m", "\"", " ", "h", "e", "a", "l", "t", "h", " ", "5", " ", "k", "i", "l", "l", "a", "b", "l", "e", " ", "3", " ", "h", "i", "t">>,
      \* a monster killable in 3 hits, then with health 5
      monster_killable_health |->
        <<"i", "n", "i", "t", ":", " ", "m", "o", "n", "s", "t", "e", "r", "s", ":", " ", "m", "o", "n", "s", "t", "e", "r", "-", "s", "t", "a", "t", "i", "c", ":", " ", "u", "n", "i", "q", "u", "e", "_", "n", "a", "m", "e", " ", "=", " ", "\"", "m", "\"", " ", "k", "i", "l", "l", "a", "b", "l", "e", " ", "3", " ", "h", "i", "t", " ", "h", "e", "a", "l", "t", "h", " ", "5">>,
      \* a mythic placed on a range
      mythic_range |->
        <<"i", "n", "i", "t", ":", " ", "m", "y", "t", "i", "c", "s", ":", " ", "m", ":", " ", "u", "n", "i", "q", "u", "e", "_", "n", "a", "m", "e", " ", "=", " ", "\"", "g", "\"", " ", "p", "l", "a", "c", "e", " ", "a", "t", " ", "(", "1", ",", "1", ")", " ", "t", "o", " ", "(", "2", ",", "2", ")">>,
      \* a mythic placed at a coordinate
      mythic_at |->
        <<"i", "n", "i", "t", ":", " ", "m", "y", "t", "i", "c", "s", ":", " ", "m", ":", " ", "u", "n", "i", "q", "u", "e", "_", "n", "a", "m", "e", " ", "=", " ", "\"", "g", "\"", " ", "p", "l", "a", "c", "e", " ", "a", "t", " ", "(", "1", ",", "1", ")">>,
      \* a mythic placed at random, 150 times out of 100
      mythic_random_150 |->
        <<"i", "n", "i", "t", ":", " ", "m", "y", "t", "i", "c", "s", ":", " ", "m", ":", " ", "u", "n", "i", "q", "u", "e", "_", "n", "a", "m", "e", " ", "=", " ", "\"", "g", "\"", " ", "p", "l", "a", "c", "e", " ", "a", "t", " ", "r", "a", "n", "d", "o", "m", "(", "1", "5", "0", "%", ")">>,
      \* a mythic, an item, a monster, an NPC and a user without unique_name
      nameless |->
        <<"i", "n", "i", "t", ":", " ", "m", "y", "t", "i", "c", "s", ":", " ", "m", ":", " ", "p", "l", "a", "c", "e", " ", "a", "t", " ", "(", "1", ",", "1", ")", " ", "i", "t", "e", "m", "s", ":", " ", "k", "e", "y", ":", " ", "p", "l", "a", "c", "e", " ", "a", "t", " ", "(", "1", ",", "1", ")", " ", "m", "o", "n", "s", "t", "e", "r", "s", ":", " ", "m", "o", "n", "s", "t", "e", "r", "-", "s", "t", "a", "t", "i", "c", ":", " ", "p", "l", "a", "c", "e", " ", "a", "t", " ", "(", "1", ",", "1", ")", " ", "n", "p", "c", ":", " ", "n", "p", "c", "-", "s", "t", "a", "t", "i", "c", ":", " ", "p", "l", "a", "c", "e", " ", "a", "t", " ", "(", "1", ",", "1", ")", " ", "u", "s", "e", "r", ":", " ", "a", "t", " ", "(", "1", ",", "1", ")">>,
      \* a mythic, an item, a monster, an NPC and a user whose unique_name is empty
      empty_names |->
        <<"i", "n", "i", "t", ":", " ", "m", "y", "t", "i", "c", "s", ":", " ", "m", ":", " ", "u", "n", "i", "q", "u", "e", "_", "n", "a", "m", "e", " ", "=", " ", "\"", "\"", " ", "i", "t", "e", "m", "s", ":", " ", "k", "e", "y", ":", " ", "u", "n", "i", "q", "u", "e", "_", "n", "a", "m", "e", " ", "=", " ", "\"", "\"", " ", "m", "o", "n", "s", "t", "e", "r", "s", ":", " ", "m", "o", "n", "s", "t", "e", "r", "-", "s", "t", "a", "t", "i", "c", ":", " ", "u", "n", "i", "q", "u", "e", "_", "n", "a", "m", "e", " ", "=", " ", "\"", "\"", " ", "n", "p", "c", ":", " ", "n", "p", "c", "-", "s", "t", "a", "t", "i", "c", ":", " ", "u", "n", "i", "q", "u", "e", "_", "n", "a", "m", "e", " ", "=", " ", "\"", "\"", " ", "u", "s", "e", "r", ":", " ", "u", "n", "i", "q", "u", "e", "_", "n", "a", "m", "e", " ", "=", " ", "\"", "\"", " ", "a", "t", " ", "(", "1", ",", "1", ")">>
    ]

Sources ==
    Files(MaxSections) \cup {ClauseText(c) : c \in ComparisonClauses}
    \cup {Programs[name] : name \in DOMAIN Programs}

\* the process started: main() about to run
Init ==
    /\ argv \in {1, 2, 3}
    /\ input_fs \in {"ok", "missing", "unreadable"}
    /\ output_fs \in {"ok", "missing", "open_fails", "write_fails"}
    /\ pc = "start"
    /\ done = <<>>
    /\ text \in Sources
    /\ pos = 0
    /\ line = 1
    /\ column = 1
    /\ tokens = <<>>
    /\ raised = NoneRec
    /\ program = NoneRec
    /\ errors = <<>>
    /\ output_file = "untouched"
    /\ stdout = <<>>
    /\ exit_code = None
    /\ html = NoneRec
    /\ game = NoneRec
    /\ alerts = <<>>
    /\ cursor = 0

Next ==
    \/ Usage
    \/ ReadInput
    \/ TokenizeIteration
    \/ TokenizeReturn
    \/ Parse
    \/ ValidateMissingInit
    \/ ValidateUniqueness
    \/ ValidateCollisions
    \/ ValidateSemantics
    \/ CompilationErrors
    \/ Generate
    \/ WriteOutput
    \/ Success
    \/ Except

Spec == Init /\ [][Next]_vars

-----------------------------------------------------------------------------
(* The parser, one pass of the dispatch loop of parse at a time.  cursor   *)
(* is Parser.pos, program the Program that parse fills.                    *)

\* the most tokens before EOF in a token list that is not lexed from a text
MaxTokens == 3

\* the text whose tokens the token lists are made of
WordsText ==
    <<"i", "n", "i", "t", " ", ":", " ", "u", "s", "e", "r", " ", "i", "f",
      " ", "d", "i", "s", "p", "l", "a", "y", "_", "t", "i", "t", "l", "e",
      " ", "u", "n", "i", "q", "u", "e", "_", "n", "a", "m", "e", " ", "=",
      " ", "\"", "s", "\"", " ", ",", " ", "c", "a", "n", " ", "b", "e",
      " ", "u", "s", "e">>

\* its tokens, without EOF
Words == LET all == tokenize(WordsText).tokens IN SubSeq(all, 1, Len(all) - 1)

\* the lists of n of these tokens, ending in EOF
RECURSIVE TokenListsOf(_)
TokenListsOf(n) ==
    IF n = 0 THEN {<<>>}
    ELSE {<<Words[w]>> \o rest : w \in 1..Len(Words), rest \in TokenListsOf(n - 1)}

TokenLists ==
    {toks \o <<Token("EOF", None, 1, 1)>> :
        toks \in UNION {TokenListsOf(n) : n \in 0..MaxTokens}}

\* the parser and the program at the head of the dispatch loop
LoopHead == Ret([pos |-> cursor, err |-> NoneRec], program)

\* parser = Parser(tokens); parse() up to its loop
ParseBegin ==
    /\ pc = "parse"
    /\ cursor' = Parser.pos
    /\ program' = Program(<<>>, NoneRec, NoneRec, NoneRec, NoneRec, NoneRec)
    /\ pc' = "parse_loop"
    /\ UNCHANGED <<argv, input_fs, output_fs, alerts, html, game, text, pos, line,
                   column, tokens, raised, errors, output_file, stdout, exit_code,
                   done>>

\* one pass of the loop: a variable or a section is parsed, or SyntaxError
\* is raised
ParseEntry ==
    /\ pc = "parse_loop"
    /\ \E it \in {parse_entry(tokens, LoopHead)} :
         /\ ~it.exits
         /\ cursor' = it.st.p.pos
         /\ IF Failed(it.st.p)
            THEN /\ raised' = it.st.p.err
                 /\ pc' = "except"
                 /\ UNCHANGED program
            ELSE /\ program' = it.st.val
                 /\ UNCHANGED <<raised, pc>>
    /\ UNCHANGED <<argv, input_fs, output_fs, alerts, html, game, text, pos, line,
                   column, tokens, errors, output_file, stdout, exit_code, done>>

\* the loop is left at EOF: return program
ParseReturn ==
    /\ pc = "parse_loop"
    /\ parse_entry(tokens, LoopHead).exits
    /\ done' = Append(done, "parse")
    /\ pc' = "validate"
    /\ UNCHANGED <<argv, input_fs, output_fs, alerts, cursor, html, game, text, pos,
                   line, column, tokens, raised, program, errors, output_file,
                   stdout, exit_code>>

\* a source file that is lexed and parsed, or a token list that is parsed
InitParse ==
    /\ argv = 2
    /\ input_fs = "ok"
    /\ output_fs = "ok"
    /\ \/ /\ pc = "tokenize"
          /\ done = <<"read">>
          /\ text \in Sources
          /\ tokens = <<>>
       \/ /\ pc = "parse"
          /\ done = <<"read", "tokenize">>
          /\ text = <<>>
          /\ tokens \in TokenLists
    /\ pos = 0
    /\ line = 1
    /\ column = 1
    /\ raised = NoneRec
    /\ program = NoneRec
    /\ errors = <<>>
    /\ output_file = "untouched"
    /\ stdout = <<>>
    /\ exit_code = None
    /\ html = NoneRec
    /\ game = NoneRec
    /\ alerts = <<>>
    /\ cursor = 0

NextParse ==
    \/ TokenizeIteration
    \/ TokenizeReturn
    \/ ParseBegin
    \/ ParseEntry
    \/ ParseReturn

SpecParse == InitParse /\ [][NextParse]_vars

-----------------------------------------------------------------------------
(* The generated game: the page is loaded in a browser, DungeonGame is      *)
(* constructed and init() places the entities with a random placement.     *)
(* Math.random() returns one of the numbers n / RandomSteps, for n in       *)
(* Draws.                                                                  *)

Draws == 0..(RandomSteps - 1)

\* 10 to the power n
RECURSIVE power_of_ten(_)
power_of_ten(n) == IF n = 0 THEN 1 ELSE 10 * power_of_ten(n - 1)

\* Math.random() * 100 < percentage, for the draw n / RandomSteps and a
\* percentage whole.frac
below(n, percentage) ==
    LET scale == power_of_ten(Len(percentage.frac)) IN
    n * 100 * scale
        < (percentage.whole * scale + int_of(percentage.frac)) * RandomSteps

\* Math.floor(Math.random() * size), for the draw n / RandomSteps
floor_of(n, size) == (n * size) \div RandomSteps

\* one of the three loops of placeRandomEntities; draws[k] holds the three
\* numbers Math.random() returns for the k-th entity, if it is asked
place_random(entities, draws, world) ==
    [k \in 1..Len(entities) |->
        IF /\ entities[k].placement # undefined
           /\ entities[k].placement.type = "random"
           /\ below(draws[k].chance, entities[k].placement.percentage)
        THEN [entities[k] EXCEPT !.position = <<floor_of(draws[k].x, world.width),
                                                floor_of(draws[k].y, world.height)>>]
        ELSE entities[k]]

\* what Math.random() returns for each of n entities
DrawsFor(n) == [1..n -> [chance : Draws, x : Draws, y : Draws]]

\* new DungeonGame(), up to the call of init(): this.state is a copy of
\* INITIAL_GAME_STATE
Construct ==
    /\ pc = "load"
    /\ game' = html.INITIAL_GAME_STATE
    /\ done' = Append(done, "constructor")
    /\ pc' = "init"
    /\ UNCHANGED <<argv, input_fs, output_fs, alerts, cursor, html, text, pos, line, column, tokens,
                   raised, program, errors, output_file, stdout, exit_code>>

\* init(): placeRandomEntities() places mythics, items and monsters
PlaceRandomEntities ==
    /\ pc = "init"
    /\ \E m \in DrawsFor(Len(game.mythics)), i \in DrawsFor(Len(game.items)),
          o \in DrawsFor(Len(game.monsters)) :
          game' = [game EXCEPT !.mythics = place_random(@, m, game.world),
                               !.items = place_random(@, i, game.world),
                               !.monsters = place_random(@, o, game.world)]
    /\ done' = Append(done, "placeRandomEntities")
    /\ pc' = "started"
    /\ UNCHANGED <<argv, input_fs, output_fs, alerts, cursor, html, text, pos, line, column, tokens,
                   raised, program, errors, output_file, stdout, exit_code>>

\* the placements of the entities of a game: at random never, half of the
\* time and always, and at a coordinate
GamePlacements ==
    {Placement("random", NoneRec, NoneRec, Number(n, FALSE)) :
        n \in {<<"0">>, <<"5", "0">>, <<"1", "0", "0">>}}
    \cup {Placement("coordinate", Coord(1, 1), NoneRec, NoneRec)}

GameDeclarations ==
    {MythicItem(<<"a">>, p, TRUE, NoneRec) : p \in GamePlacements}
    \cup {ItemDecl(<<"k", "e", "y">>, <<"a">>, p, TRUE, NoneRec, NoneRec, NoneRec) :
             p \in GamePlacements}
    \cup {MonsterDecl(<<"a">>, S.monster_static, p, NoneRec, NoneRec, NoneRec) :
             p \in GamePlacements}
    \cup {NPCDecl(S_npc_dynamic, <<"a">>, p, NoneRec, NoneRec, NoneRec, NoneRec,
                  NoneRec, <<>>, NoneRec) : p \in GamePlacements}

\* the worlds: the default one, a small one and an empty one
GameWorlds == {NoneRec, WorldDecl(3, 2), WorldDecl(0, 0)}

\* the programs whose games are started: a user at (1, 1), a world, and at
\* most MaxPlaced mythics, items, monsters and NPCs in all
GamePrograms ==
    LET Classes == <<"MythicItem", "ItemDecl", "MonsterDecl", "NPCDecl">>
        Rank(d) == CHOOSE k \in 1..4 : Classes[k] = d.class
        Lists == {ds \in UNION {[1..k -> GameDeclarations] : k \in 0..MaxPlaced} :
                     \A i \in 1..Len(ds) : \A j \in i..Len(ds) :
                         Rank(ds[i]) <= Rank(ds[j])}
        OfClass(ds, class) == SelectSeq(ds, LAMBDA d : d.class = class)
    IN  {Program(<<>>,
                 [InitSection EXCEPT !.world = w,
                                     !.mythics = OfClass(ds, "MythicItem"),
                                     !.items = OfClass(ds, "ItemDecl"),
                                     !.monsters = OfClass(ds, "MonsterDecl"),
                                     !.npcs = OfClass(ds, "NPCDecl"),
                                     !.user = UserDecl(S.player, NoneRec, Coord(1, 1))],
                 NoneRec, NoneRec, NoneRec, NoneRec) :
            ds \in Lists, w \in GameWorlds}

\* the page of a compiled program has been loaded
InitGame ==
    /\ argv = 2
    /\ input_fs = "ok"
    /\ output_fs = "ok"
    /\ pc = "load"
    /\ done = <<>>
    /\ text = <<>>
    /\ pos = 0
    /\ line = 1
    /\ column = 1
    /\ tokens = <<>>
    /\ raised = NoneRec
    /\ program \in GamePrograms
    /\ errors = <<>>
    /\ output_file = "written"
    /\ stdout = <<>>
    /\ exit_code = 0
    /\ html = generate(program)
    /\ game = NoneRec
    /\ alerts = <<>>
    /\ cursor = 0

NextGame ==
    \/ Construct
    \/ PlaceRandomEntities

SpecGame == InitGame /\ [][NextGame]_vars

-----------------------------------------------------------------------------
(* The game being played: one action per key handler of the page. The model *)
(* holds this.state and the alerts; what the handlers draw is left out.      *)

\* getEntity(name): the user, or the first NPC, monster, item or mythic of
\* that name, or null
getEntity(state, name) ==
    LET Named(entities) == SelectSeq(entities, LAMBDA e : e.unique_name = name)
        found == Named(state.npcs) \o Named(state.monsters)
                 \o Named(state.items) \o Named(state.mythics)
    IN  IF name = S.user THEN state.user
        ELSE IF found # <<>> THEN Head(found) ELSE NoneRec

\* compareValues(a, op, b), for an integer a and a number b of the lexer
compareValues(a, op, b) ==
    LET scale == power_of_ten(Len(b.frac))
        left == a * scale
        right == b.whole * scale + int_of(b.frac)
    IN  CASE op = <<">">> -> left > right
          [] op = <<"<">> -> left < right
          [] op = <<">", "=">> -> left >= right
          [] op = <<"<", "=">> -> left <= right
          [] op = <<"!", "=">> -> left # right
          [] OTHER -> left = right

\* checkCondition(condition); entity[attr] of a comparison is read with the
\* number of the condition as its key, which no entity has: `|| 0` gives 0
checkCondition(state, condition) ==
    CASE condition.type = "position" ->
            LET entity == getEntity(state, condition.entity) IN
            /\ entity # NoneRec
            /\ entity.position # undefined
            /\ entity.position # NoneRec
            /\ entity.position = condition.position
      [] condition.type = "has" ->
            /\ condition.entity = S.user
            /\ condition.value # undefined
            /\ condition.value.type = "str"
            /\ condition.value.value \in Range(state.user.inventory)
      [] condition.type = "talked_to" ->
            /\ condition.entity = S.user
            /\ condition.value.value \in Range(state.user.talked_to_npcs)
      [] condition.type = "responded_to" ->
            \E k \in 1..Len(state.npcs) :
                /\ state.npcs[k] = getEntity(state, condition.entity)
                /\ state.npcs[k].has_responded
      [] condition.type = "comparison" ->
            /\ getEntity(state, condition.entity) # NoneRec
            /\ compareValues(0, condition.operator.value, condition.value.value)
      [] OTHER -> FALSE

\* checkConditions(conditions): every one of them holds
checkConditions(state, conditions) ==
    \A k \in 1..Len(conditions) : checkCondition(state, conditions[k])

\* the results of the end-game conditions
S_win == StrValue(<<"w", "i", "n", " ", "t", "h", "e", " ", "g", "a", "m", "e">>)

S_lose ==
    StrValue(<<"d", "i", "e", " ", "a", "n", "d", " ", "l", "o", "s", "e", " ",
               "t", "h", "e", " ", "g", "a", "m", "e">>)

\* whether this.state.end_game has conditions: the generator has written
\* them, and the two messages, for an end-game section
has_conditions(end_game) == DOMAIN end_game # {"conditions"}

\* endGame(won): the alert it shows
endGame(state, won) ==
    [won |-> won,
     message |->
        IF ~has_conditions(state.end_game)
        THEN IF won THEN StrValue(<<"Y", "o", "u", " ", "w", "o", "n", "!">>)
             ELSE StrValue(<<"Y", "o", "u", " ", "l", "o", "s", "t", "!">>)
        ELSE IF won
        THEN Or(state.end_game.win_message,
                StrValue(<<"Y", "o", "u", " ", "w", "o", "n", "!">>))
        ELSE Or(state.end_game.lose_message,
                StrValue(<<"Y", "o", "u", " ", "l", "o", "s", "t", "!">>))]

\* the conditions of the end-game conditions with a result, in order
conditions_with(state, result) ==
    LET tagged == SelectSeq(state.end_game.conditions,
                            LAMBDA endCondition : endCondition.result = result)
    IN  [k \in 1..Len(tagged) |-> tagged[k].condition]

\* checkEndGame(): the alerts it shows, none or one
checkEndGame(state) ==
    IF state.user.health <= 0 THEN <<endGame(state, FALSE)>>
    ELSE IF ~has_conditions(state.end_game) THEN <<>>
    ELSE IF /\ conditions_with(state, S_win) # <<>>
            /\ checkConditions(state, conditions_with(state, S_win))
    THEN <<endGame(state, TRUE)>>
    ELSE IF /\ conditions_with(state, S_lose) # <<>>
            /\ checkConditions(state, conditions_with(state, S_lose))
    THEN <<endGame(state, FALSE)>>
    ELSE <<>>

\* canMoveTo(x, y): no wall or stone, no NPC and no undefeated monster there
canMoveTo(state, x, y) ==
    LET blocks(furniture) ==
            /\ furniture.name \in {<<"w", "a", "l", "l">>, <<"s", "t", "o", "n", "e">>}
            /\ \/ /\ furniture.placement.type = "coordinate"
                  /\ furniture.placement.coord = <<x, y>>
               \/ /\ furniture.placement.type = "range"
                  /\ LET coord1 == furniture.placement.coord1
                         coord2 == furniture.placement.coord2
                         min(a, b) == IF a <= b THEN a ELSE b
                         max(a, b) == IF a >= b THEN a ELSE b
                     IN  /\ x >= min(coord1[1], coord2[1])
                         /\ x <= max(coord1[1], coord2[1])
                         /\ y >= min(coord1[2], coord2[2])
                         /\ y <= max(coord1[2], coord2[2])
    IN  /\ \A k \in 1..Len(state.furniture) : ~blocks(state.furniture[k])
        /\ \A k \in 1..Len(state.npcs) :
              state.npcs[k].position = undefined
                 \/ state.npcs[k].position # <<x, y>>
        /\ \A k \in 1..Len(state.monsters) :
              \/ state.monsters[k].defeated
              \/ state.monsters[k].position = undefined
              \/ state.monsters[k].position # <<x, y>>

\* whether the user stands on an entity that is still to be picked up
pickup_here(state, entity) ==
    /\ ~entity.picked_up
    /\ entity.position # undefined
    /\ entity.position = state.user.position

\* the loop of checkPickups over the mythics, from the k-th
RECURSIVE pickup_mythics(_, _)
pickup_mythics(state, k) ==
    IF k > Len(state.mythics) THEN state
    ELSE IF pickup_here(state, state.mythics[k]) /\ state.mythics[k].can_pickup
    THEN pickup_mythics(
            [state EXCEPT !.user.inventory = Append(@, state.mythics[k].unique_name),
                          !.mythics[k].picked_up = TRUE], k + 1)
    ELSE pickup_mythics(state, k + 1)

\* the loop of checkPickups over the items, from the k-th; an item-heal
\* heals 25 of at most 100
RECURSIVE pickup_items(_, _)
pickup_items(state, k) ==
    IF k > Len(state.items) THEN state
    ELSE IF pickup_here(state, state.items[k]) /\ state.items[k].can_pickup
    THEN pickup_items(
            [state EXCEPT !.user.inventory = Append(@, state.items[k].unique_name),
                          !.items[k].picked_up = TRUE,
                          !.user.health =
                              IF state.items[k].item_type
                                    # <<"i", "t", "e", "m", "-", "h", "e", "a", "l">>
                              THEN @
                              ELSE IF @ + 25 < 100 THEN @ + 25 ELSE 100], k + 1)
    ELSE pickup_items(state, k + 1)

\* a handler at work: this.state and the alerts it has shown
Run(state, shown) == [state |-> state, alerts |-> shown]

\* checkPickups(): checkEndGame() is called if something was picked up
checkPickups(run) ==
    LET state == pickup_items(pickup_mythics(run.state, 1), 1) IN
    Run(state,
        IF state.user.inventory # run.state.user.inventory
        THEN run.alerts \o checkEndGame(state) ELSE run.alerts)

\* executeAction(action)
executeAction(state, action) ==
    IF action.type = "level up" THEN [state EXCEPT !.user.level = @ + 1]
    ELSE state

\* a rule that is never carried out twice, as a quest is
RECURSIVE evaluateRules_once(_, _)
evaluateRules_once(run, k) ==
    IF k > Len(run.state.rules) THEN run
    ELSE IF /\ ~run.state.rules[k].triggered
            /\ checkConditions(run.state, run.state.rules[k].conditions)
    THEN evaluateRules_once(
            Run([executeAction(run.state, run.state.rules[k].action)
                    EXCEPT !.rules[k].triggered = TRUE], run.alerts), k + 1)
    ELSE evaluateRules_once(run, k + 1)

\* the loop of evaluateRules, from the k-th rule
RECURSIVE evaluateRules(_, _)
evaluateRules(run, k) ==
    IF k > Len(run.state.rules) THEN run
    ELSE IF checkConditions(run.state, run.state.rules[k].conditions)
    THEN evaluateRules(Run(executeAction(run.state, run.state.rules[k].action),
                           run.alerts), k + 1)
    ELSE evaluateRules(run, k + 1)

\* the loop of evaluateQuests, from the k-th quest
RECURSIVE evaluateQuests(_, _)
evaluateQuests(run, k) ==
    IF k > Len(run.state.quests) THEN run
    ELSE IF /\ ~run.state.quests[k].completed
            /\ checkConditions(run.state, run.state.quests[k].conditions)
    THEN LET state == [executeAction(run.state, run.state.quests[k].action)
                          EXCEPT !.quests[k].completed = TRUE,
                                 !.quests[k].status = "completed"]
         IN  evaluateQuests(Run(state, run.alerts \o checkEndGame(state)), k + 1)
    ELSE evaluateQuests(run, k + 1)

\* moveUser(dx, dy), for a move that is not turned down
moveUser(state, dx, dy) ==
    LET moved == [state EXCEPT !.user.position = <<@[1] + dx, @[2] + dy>>]
        picked == checkPickups(Run(moved, <<>>))
        ruled == evaluateRules(picked, 1)
        quested == evaluateQuests(ruled, 1)
    IN  Run(quested.state, quested.alerts \o checkEndGame(quested.state))

\* whether moveUser(dx, dy) returns before it moves the user
turned_down(state, dx, dy) ==
    LET newX == state.user.position[1] + dx
        newY == state.user.position[2] + dy
    IN  \/ newX < 0
        \/ newX >= state.world.width
        \/ newY < 0
        \/ newY >= state.world.height
        \/ ~canMoveTo(state, newX, newY)

\* the arrow keys: up, down, left and right
Arrows == {<<0, -1>>, <<0, 1>>, <<-1, 0>>, <<1, 0>>}

\* the calls of moveUser that have returned
Moves == Len(SelectSeq(done, LAMBDA stage : stage = "moveUser"))

\* an arrow key is pressed: moveUser(dx, dy)
MoveUser ==
    /\ pc = "started"
    /\ Moves < MaxMoves
    /\ \E arrow \in Arrows :
          IF turned_down(game, arrow[1], arrow[2])
          THEN UNCHANGED <<game, alerts>>
          ELSE \E r \in {moveUser(game, arrow[1], arrow[2])} :
                  /\ game' = r.state
                  /\ alerts' = alerts \o r.alerts
    /\ done' = Append(done, "moveUser")
    /\ UNCHANGED <<argv, input_fs, output_fs, cursor, html, pc, text, pos, line,
                   column, tokens, raised, program, errors, output_file, stdout,
                   exit_code>>

\* the parts the programs of the played games are made of
UserAt(x, y) == Condition("position", S.user, NoneRec, NoneRec, Coord(x, y))

UserHas(name) == Condition("has", S.user, NoneRec, StrValue(name), NoneRec)

LevelUp == Action("level up", NoneRec, NoneRec, NoneRec)

At(x, y) == Placement("coordinate", Coord(x, y), NoneRec, NoneRec)

\* a program from its init section and its rules, quests and end-game
\* conditions, in a world of 3 x 2 cells with the user at (1, 1)
PlayProgram(init, rules, quests, end_conditions) ==
    Program(<<>>,
            [init EXCEPT !.world = WorldDecl(3, 2),
                         !.user = UserDecl(S.player, NoneRec, Coord(1, 1))],
            IF rules = <<>> THEN NoneRec ELSE RulesSection(rules),
            IF quests = <<>> THEN NoneRec ELSE QuestsSection(quests),
            IF end_conditions = <<>> THEN NoneRec
            ELSE EndGameSection(end_conditions, NoneRec, NoneRec),
            NoneRec)

\* the programs of the games that are played, by what they hold
PlayPrograms ==
    [
      \* two clauses that win the game, of one condition each:
      \* end_game: if user is at (1,0) then win the game
      \*           if user is at (2,1) then win the game
      two_wins |->
        PlayProgram(InitSection, <<>>, <<>>,
                    <<EndCondition(UserAt(1, 0), S_win),
                      EndCondition(UserAt(2, 1), S_win)>>),
      \* a key at (2,1), a clause of two conditions that wins the game and
      \* one that loses it:
      \* end_game: if user is at (1,0) and user has item "key" then win the game
      \*           if user is at (0,1) then die and lose the game
      win_and |->
        PlayProgram([InitSection EXCEPT !.items =
                        <<ItemDecl(<<"k", "e", "y">>, <<"k", "e", "y">>, At(2, 1),
                                   TRUE, NoneRec, NoneRec, NoneRec)>>],
                    <<>>, <<>>,
                    <<EndCondition(UserAt(1, 0), S_win),
                      EndCondition(UserHas(<<"k", "e", "y">>), S_win),
                      EndCondition(UserAt(0, 1), S_lose)>>),
      \* a rule and a quest on the same condition:
      \* rules: if user is at (1,0) then level
      \* quests: if user is at (1,0) then level
      rule_and_quest |->
        PlayProgram(InitSection, <<Rule(<<UserAt(1, 0)>>, LevelUp)>>,
                    <<Quest(NoneRec, <<UserAt(1, 0)>>, LevelUp)>>, <<>>),
      \* a user between a wall at (1,0), a monster at (0,1), an NPC at (2,1)
      \* and the edge of the world
      walled_in |->
        PlayProgram([InitSection EXCEPT
                        !.furniture = <<FurnitureItem(<<"w", "a", "l", "l">>, At(1, 0))>>,
                        !.monsters = <<MonsterDecl(<<"m">>, S.monster_static, At(0, 1),
                                                   NoneRec, NoneRec, NoneRec)>>,
                        !.npcs = <<NPCDecl(S_npc_static, <<"n">>, At(2, 1), NoneRec,
                                           NoneRec, NoneRec, NoneRec, NoneRec, <<>>,
                                           NoneRec)>>],
                    <<>>, <<>>, <<>>),
      \* a mythic at (1,0) and a healing item at (2,1) to pick up, a rule and
      \* an end-game clause on them:
      \* rules: if user has item "gem" then level
      \* end_game: if user has item "pot" then win the game
      pickups |->
        PlayProgram([InitSection EXCEPT
                        !.mythics = <<MythicItem(<<"g", "e", "m">>, At(1, 0), TRUE,
                                                 NoneRec)>>,
                        !.items = <<ItemDecl(<<"i", "t", "e", "m", "-", "h", "e", "a", "l">>,
                                             <<"p", "o", "t">>, At(2, 1), TRUE, NoneRec,
                                             NoneRec, NoneRec)>>],
                    <<Rule(<<UserHas(<<"g", "e", "m">>)>>, LevelUp)>>, <<>>,
                    <<EndCondition(UserHas(<<"p", "o", "t">>), S_win)>>),
      \* a quest and an end-game clause on the same condition, and a clause
      \* that loses the game:
      \* quests: if user is at (2,1) then level
      \* end_game: if user is at (2,1) then win the game
      \*           if user is at (0,0) then die and lose the game
      quest_and_end |->
        PlayProgram(InitSection, <<>>, <<Quest(NoneRec, <<UserAt(2, 1)>>, LevelUp)>>,
                    <<EndCondition(UserAt(2, 1), S_win),
                      EndCondition(UserAt(0, 0), S_lose)>>)
    ]

\* the page of a played game has been loaded
InitPlay ==
    /\ argv = 2
    /\ input_fs = "ok"
    /\ output_fs = "ok"
    /\ pc = "load"
    /\ done = <<>>
    /\ text = <<>>
    /\ pos = 0
    /\ line = 1
    /\ column = 1
    /\ tokens = <<>>
    /\ raised = NoneRec
    /\ program \in {PlayPrograms[name] : name \in DOMAIN PlayPrograms}
    /\ errors = <<>>
    /\ output_file = "written"
    /\ stdout = <<>>
    /\ exit_code = 0
    /\ html = generate(program)
    /\ game = NoneRec
    /\ alerts = <<>>
    /\ cursor = 0

NextPlay ==
    \/ Construct
    \/ PlaceRandomEntities
    \/ MoveUser

SpecPlay == InitPlay /\ [][NextPlay]_vars

-----------------------------------------------------------------------------
(* Properties of the lexer *)

Returned(stage) == stage \in Range(done)

\* the character of the text at a 1-based line and column, None outside it
CharAt(t, ln, col) ==
    LET newlines == {i \in 1..Len(t) : t[i] = "\n"}
        before == IF ln = 1 THEN 0
                  ELSE IF Cardinality(newlines) < ln - 1 THEN Len(t) + 1
                  ELSE CHOOSE i \in newlines :
                          Cardinality({j \in newlines : j <= i}) = ln - 1
        at == before + col
    IN  IF col >= 1 /\ at \in 1..Len(t)
           /\ \A j \in (before + 1)..(at - 1) : t[j] # "\n"
        THEN t[at]
        ELSE None

\* c can be the first character of the lexeme of token tok
StartsLexeme(tok, c) ==
    CASE tok.type = "STRING" -> c \in {"\"", "'"}
      [] tok.type \in {"NUMBER", "PERCENTAGE"} -> isdigit(c)
      [] tok.type = "BOOLEAN" -> lower_char(c) = IF tok.value THEN "t" ELSE "f"
      [] OTHER -> c = tok.value[1]

Kinds(toks) == [i \in 1..Len(toks) |-> toks[i].type]

\* C4: when tokenize returns, the token list has exactly one EOF token, and
\* it is the last element.
C4_LexCompleteness ==
    Returned("tokenize") =>
        /\ Len(tokens) >= 1
        /\ tokens[Len(tokens)].type = "EOF"
        /\ \A i \in 1..(Len(tokens) - 1) : tokens[i].type # "EOF"

C4_Witness ==
    /\ Returned("tokenize")
    /\ Len(tokens) >= 3

\* C5: the source character at the recorded line and column of every
\* non-EOF token is the first character of the token's lexeme.
C5_ColumnTracking ==
    \A i \in 1..Len(tokens) :
        tokens[i].type # "EOF" =>
            StartsLexeme(tokens[i], CharAt(text, tokens[i].line, tokens[i].column))

\* the backslashes that immediately precede index j, from index lo on
RECURSIVE BackslashRun(_, _, _)
BackslashRun(t, j, lo) ==
    IF j - 1 >= lo /\ t[j - 1] = "\\" THEN 1 + BackslashRun(t, j - 1, lo) ELSE 0

\* the string literal opened by the quote at index open has a closing quote
Closed(t, open) ==
    \E j \in (open + 1)..Len(t) :
        t[j] = t[open] /\ BackslashRun(t, j, open + 1) % 2 = 0

\* no rule of the lexer starts with character c followed by character d
Unrecognised(c, d) ==
    /\ c # None
    /\ ~ isalnum(c)
    /\ c \notin {" ", "\t", "\r", "\n", "#", "\"", "'", "_",
                 "=", ">", "<", ",", ":", ";", "(", ")"}
    /\ (c = "!" => d # "=")

\* the lexer is about to scan the token that starts at the next character
\* that is not white space
AtToken == pc = "tokenize" /\ pos < Len(text)
NextStart == skip_whitespace(Self)

\* C6, as claimed: tokenize fails with a SyntaxError carrying line and column
\* on an unrecognised character outside strings and comments, and on a string
\* literal that is never closed.
C6_AsClaimed ==
    [][AtToken =>
         LET lx == NextStart
             c == current_char(lx)
         IN  (\/ Unrecognised(c, peek_char(lx))
              \/ (c \in {"\"", "'"} /\ ~ Closed(text, lx.pos + 1)))
             => raised' = SyntaxError(lx.line, lx.column)]_vars

\* C6, amended: an unrecognised character outside strings and comments
\* raises a SyntaxError with its line and column; a string literal that is
\* never closed raises no SyntaxError: it consumes the rest of the input and
\* is emitted as a STRING token, or raises a TypeError when the input ends
\* right after a backslash.
C6_LexErrors ==
    [][AtToken =>
         LET lx == NextStart
             c == current_char(lx)
         IN  /\ Unrecognised(c, peek_char(lx))
                  => raised' = SyntaxError(lx.line, lx.column) /\ pc' = "except"
             /\ (c \in {"\"", "'"} /\ ~ Closed(text, lx.pos + 1))
                  => /\ pos' >= Len(text)
                     /\ raised'.type # "SyntaxError"
                     /\ (raised' = TypeError)
                           <=> (BackslashRun(text, Len(text) + 1, lx.pos + 2) % 2 = 1)
                     /\ raised' = NoneRec
                           => /\ Len(tokens') = Len(tokens) + 1
                              /\ tokens'[Len(tokens')].type = "STRING"
                              /\ tokens'[Len(tokens')].line = lx.line
                              /\ tokens'[Len(tokens')].column = lx.column]_vars

\* a string literal that is never closed came out as the last token
C6_Witness ==
    /\ Returned("tokenize")
    /\ Len(tokens) >= 3
    /\ tokens[Len(tokens) - 1].type = "STRING"
    /\ tokens[Len(tokens) - 1].value # <<>>
    /\ tokens[Len(tokens) - 1].line = 1
    /\ ~ Closed(text, tokens[Len(tokens) - 1].column)

\* the identifier that starts at the lexer's position is exactly `level`
AtLevel(lx) ==
    /\ lx.pos + 5 <= Len(lx.text)
    /\ SubSeq(lx.text, lx.pos + 1, lx.pos + 5) = <<"l", "e", "v", "e", "l">>
    /\ (lx.pos + 5 < Len(lx.text) =>
          LET c == lx.text[lx.pos + 6] IN ~ isalnum(c) /\ c \notin {"_", "-"})

FollowedByUp(lx) ==
    /\ lx.pos + 8 <= Len(lx.text)
    /\ SubSeq(lx.text, lx.pos + 6, lx.pos + 8) = <<" ", "u", "p">>

\* C8: the identifier `level` followed by exactly ` up` is emitted as one
\* LEVEL_UP token with lexeme `level up`, and scanning resumes after `up`;
\* otherwise nothing is consumed and scanning resumes right after `level`.
C8_LevelUpKeyword ==
    [][(AtToken /\ AtLevel(NextStart)) =>
         LET lx == NextStart IN
         IF FollowedByUp(lx)
         THEN /\ tokens' = Append(tokens, Token("LEVEL_UP",
                               <<"l", "e", "v", "e", "l", " ", "u", "p">>,
                               lx.line, lx.column))
              /\ pos' = lx.pos + 8
         ELSE pos' = lx.pos + 5]_vars

\* C9: the token kinds of a text are those of its lower-case spelling, and
\* an identifier token keeps the case of the source.
C9_CaseInsensitiveKeywords ==
    Returned("tokenize") =>
        /\ Kinds(tokens) = Kinds(tokenize(lower(text)).tokens)
        /\ \A i \in 1..Len(tokens) :
              tokens[i].type = "IDENTIFIER"
                  => \E k \in 1..Len(text) :
                        /\ k + Len(tokens[i].value) - 1 <= Len(text)
                        /\ SubSeq(text, k, k + Len(tokens[i].value) - 1) = tokens[i].value

-----------------------------------------------------------------------------
(* Properties of the validator *)

Count(seq, P(_)) == Cardinality({i \in 1..Len(seq) : P(seq[i])})

\* the mythics, items, monsters, NPCs and user of an init section that carry
\* the name n
Holders(init, n) ==
    Count(init.mythics, LAMBDA d : d.unique_name = n)
    + Count(init.items, LAMBDA d : d.unique_name = n)
    + Count(init.monsters, LAMBDA d : d.unique_name = n)
    + Count(init.npcs, LAMBDA d : d.unique_name = n)
    + (IF init.user # NoneRec /\ init.user.unique_name = n THEN 1 ELSE 0)

DeclaredNames(init) ==
    Range(UniqueNames(init.mythics)) \cup Range(UniqueNames(init.items))
    \cup Range(UniqueNames(init.monsters)) \cup Range(UniqueNames(init.npcs))
    \cup (IF init.user # NoneRec THEN {init.user.unique_name} ELSE {})

\* C10: when validate_uniqueness has run, a name carried by two or more of
\* the mythics, items, monsters, NPCs and the user has a `Duplicate
\* unique_name` diagnostic, exactly one when exactly two carry it, and no
\* other name has one.
C10_UniquenessEnforced ==
    pc = "validate_collisions" =>
        /\ \A n \in DeclaredNames(program.init_section) :
              LET k == Holders(program.init_section, n)
                  d == Count(errors, LAMBDA e : e = Duplicate(n))
              IN  /\ k >= 2 => d >= 1
                  /\ k = 2 => d = 1
                  /\ k <= 1 => d = 0
        /\ \A i \in 1..Len(errors) :
              /\ errors[i].message = Duplicate(<<>>).message
              /\ errors[i].name \in DeclaredNames(program.init_section)

\* a mythic and the user share a name that an item in between spells in
\* another case
C10_Witness ==
    /\ pc = "validate_collisions"
    /\ Len(program.init_section.mythics) = 1
    /\ Len(program.init_section.items) = 1
    /\ program.init_section.user # NoneRec
    /\ program.init_section.mythics[1].unique_name = <<"a">>
    /\ program.init_section.items[1].unique_name = <<"A">>
    /\ program.init_section.user.unique_name = <<"a">>
    /\ errors = <<Duplicate(<<"a">>)>>

\* the monsters and NPCs of the program, in the validator's order
NonPickups == program.init_section.monsters \o program.init_section.npcs

\* the monsters and NPCs with a coordinate placement at the position
PlacedAt(at) ==
    {k \in 1..Len(NonPickups) :
        /\ NonPickups[k].placement # NoneRec
        /\ NonPickups[k].placement.type = "coordinate"
        /\ NonPickups[k].placement.coord1 = at}

\* the collision diagnostics for the position
CollisionsAt(at) ==
    {k \in 1..Len(errors) :
        errors[k].message = "Collision at {}: {}" /\ errors[k].pos = at}

\* the positions a diagnostic or a placement of the program names
Positions ==
    {Coord(5, 5), Coord(6, 6)}
    \cup {errors[k].pos : k \in {j \in 1..Len(errors) :
                                    errors[j].message = "Collision at {}: {}"}}

\* C11: once validate_collisions has returned, the errors hold a `Collision
\* at` diagnostic for a position if and only if at least two of the monsters
\* and NPCs have a coordinate placement at that position: items and mythics
\* there do not count, and neither do range, random and `all` placements.
C11_CollisionRule ==
    Returned("validate_collisions") =>
        \A at \in Positions :
            (CollisionsAt(at) # {}) <=> (Cardinality(PlacedAt(at)) >= 2)

\* a monster on a range that starts at (5, 5), an NPC at the coordinate
\* (5, 5): validate_collisions has returned without a diagnostic
C11_Witness ==
    /\ Returned("validate_collisions")
    /\ program.init_section # NoneRec
    /\ Len(program.init_section.monsters) = 1
    /\ Len(program.init_section.npcs) = 1
    /\ program.init_section.monsters[1].placement
          = Placement("range", Coord(5, 5), Coord(6, 6), NoneRec)
    /\ program.init_section.npcs[1].placement
          = Placement("coordinate", Coord(5, 5), NoneRec, NoneRec)
    /\ CollisionsAt(Coord(5, 5)) = {}

-----------------------------------------------------------------------------
(* Properties of the parser *)

\* the Rule a comparison clause is to parse to
ComparisonRule(c) ==
    Rule(<<Condition("comparison", c.entity,
                     StrValue(IF c.op = <<>> THEN <<"=", "=">> ELSE c.op),
                     NumValue(Number(c.number, FALSE)), NoneRec)>>,
         Action("level up", NoneRec, NoneRec, NoneRec))

\* C7: once the tokens of a rules clause `if <entity> has experience <op>?
\* <number> then level up`, or the same with health, have been parsed, parse
\* has returned a program whose rules are the one Rule with the one
\* comparison condition on the entity, the operator (== when it is left out)
\* and the number, and with the level-up action.
C7_ComparisonRule ==
    \A c \in ComparisonClauses :
        text = ClauseText(c) /\ Returned("tokenize") /\ pc # "parse" =>
            /\ Returned("parse")
            /\ program.rules_section = RulesSection(<<ComparisonRule(c)>>)

-----------------------------------------------------------------------------
(* Properties of the driver *)

\* the stages of main() that have returned, the validator's checks left out
Stages ==
    SelectSeq(done, LAMBDA s : s \in {"read", "tokenize", "parse", "validate",
                                      "generate", "write"})

\* the checks of the validator that have returned
Checks ==
    SelectSeq(done, LAMBDA s : s \in {"validate_uniqueness", "validate_collisions",
                                      "validate_semantics"})

StagesBeforeWrite == <<"read", "tokenize", "parse", "validate", "generate">>

ThreeChecks == <<"validate_uniqueness", "validate_collisions", "validate_semantics">>

\* C1: the output file has been opened or written only when reading, lexing,
\* parsing, validation and generation have returned, in that order, and the
\* validator reported nothing; when a stage before the write raised, or
\* the validator reported a diagnostic, the output file is untouched.
C1_WriteAfterAllStages ==
    /\ output_file # "untouched" =>
          /\ Len(Stages) >= Len(StagesBeforeWrite)
          /\ SubSeq(Stages, 1, Len(StagesBeforeWrite)) = StagesBeforeWrite
          /\ errors = <<>>
    /\ raised # NoneRec /\ ~Returned("generate") => output_file = "untouched"
    /\ errors # <<>> => output_file = "untouched"

\* the write has happened, and main() is about to print its last line
C1_Witness ==
    /\ pc = "success"
    /\ output_file = "written"
    /\ program.init_section # NoneRec

\* C2: when the process has exited its status is 0 or 1, and it is 0 exactly
\* when every stage returned, nothing was raised or reported and the output
\* file is written.
C2_ExitCode ==
    pc = "exit" =>
        /\ exit_code \in {0, 1}
        /\ exit_code = 0 <=> /\ Stages = Append(StagesBeforeWrite, "write")
                              /\ raised = NoneRec
                              /\ errors = <<>>
                              /\ output_file = "written"

\* every stage returned, the write failed half way, and the status is 1
C2_Witness ==
    /\ pc = "exit"
    /\ exit_code = 1
    /\ Returned("generate")
    /\ output_file = "truncated"

\* the diagnostics of the validator that were printed
ValidationLines == SelectSeq(stdout, LAMBDA l : l.kind = "  ERROR: {}")

\* a SyntaxError of the lexer or the parser ends the run where it is raised:
\* the validator does not run, and the error is the only thing reported
SyntaxErrorEndsRun ==
    raised.type = "SyntaxError" =>
        /\ ~Returned("parse")
        /\ ~Returned("validate")
        /\ Checks = <<>>
        /\ errors = <<>>
        /\ ValidationLines = <<>>
        /\ ~Returned("tokenize") => raised.line = line /\ raised.column = column
        /\ pc = "exit" => stdout = <<Line("Syntax Error: {}", raised)>>

\* the diagnostics of the validator are all printed, in one run, before exit
DiagnosticsReported ==
    pc = "exit" /\ errors # <<>> =>
        /\ stdout = report_errors(errors)
        /\ Len(ValidationLines) = Len(errors)
        /\ exit_code = 1

\* C3 as stated: a syntax error ends the run before the validator; when
\* lexing and parsing have succeeded and validate has returned, the three
\* checks have all run; and the diagnostics are reported together.
C3_AsClaimed ==
    /\ SyntaxErrorEndsRun
    /\ Returned("validate") => Checks = ThreeChecks
    /\ DiagnosticsReported

\* C3: a syntax error ends the run before the validator; when lexing and
\* parsing have succeeded and validate has returned, the three checks have
\* all run and errors holds all they found if the program has an init
\* section, and none has run and the one diagnostic is the missing init
\* section if it has none; and the diagnostics are reported together.
C3_ErrorKinds ==
    /\ SyntaxErrorEndsRun
    /\ Returned("validate") =>
          IF program.init_section = NoneRec
          THEN Checks = <<>> /\ errors = <<MissingInit>>
          ELSE /\ Checks = ThreeChecks
               /\ errors = validate_uniqueness(program.init_section)
                           \o validate_collisions(program.init_section)
                           \o validate_semantics(program)
    /\ DiagnosticsReported

\* the three checks ran, two of them found something, and both diagnostics
\* are printed
C3_Witness ==
    /\ pc = "exit"
    /\ Checks = ThreeChecks
    /\ validate_uniqueness(program.init_section) # <<>>
    /\ validate_semantics(program) # <<>>
    /\ Len(ValidationLines) >= 2

\* C12: when parse has returned a program without init section, validate
\* returns with the one diagnostic `Missing required 'init:' section` and
\* without running the uniqueness, collision or semantic check, and the
\* process exits with status 1 having printed that diagnostic, generated
\* nothing and left the output file alone.
C12_MissingInitSection ==
    Returned("parse") /\ program.init_section = NoneRec =>
        /\ Checks = <<>>
        /\ ~Returned("generate")
        /\ html = NoneRec
        /\ output_file = "untouched"
        /\ errors = IF Returned("validate") THEN <<MissingInit>> ELSE <<>>
        /\ pc = "exit" =>
              /\ Returned("validate")
              /\ exit_code = 1
              /\ ValidationLines = <<Line("  ERROR: {}", MissingInit)>>

\* the empty source file: the run has ended with the one diagnostic
C12_Witness ==
    /\ text = <<>>
    /\ Returned("read")
    /\ pc = "exit"
    /\ exit_code = 1
    /\ errors = <<MissingInit>>
    /\ output_file = "untouched"

\* the conditions of the rules, of the quests and of the end-game section
ReferencedConditions ==
    UNION {Range(r.conditions) :
              r \in IF program.rules_section = NoneRec THEN {}
                    ELSE Range(program.rules_section.rules)}
    \cup UNION {Range(q.conditions) :
                   q \in IF program.quests_section = NoneRec THEN {}
                         ELSE Range(program.quests_section.quests)}
    \cup {ec.condition :
             ec \in IF program.end_game_section = NoneRec THEN {}
                    ELSE Range(program.end_game_section.conditions)}

\* C13: when validate has returned without a diagnostic, the entity of every
\* condition of the rules section, of the quests section and of the end_game
\* section is `user` or the unique_name of a declared mythic, item, monster
\* or NPC.
C13_EntitiesResolve ==
    Returned("validate") /\ errors = <<>> =>
        \A c \in ReferencedConditions :
            c.entity = S.user \/ entity_found(program.init_section, c.entity)

\* C14: when validate has returned without a diagnostic the program declares
\* a user with a coordinate, and the position of the user in the generated
\* state is that coordinate, never the default [50, 50] of the generator.
C14_UserPositionDeclared ==
    /\ Returned("validate") /\ errors = <<>> =>
          /\ program.init_section.user # NoneRec
          /\ program.init_section.user.position # NoneRec
    /\ Returned("generate") =>
          /\ program.init_section.user # NoneRec
          /\ program.init_section.user.position # NoneRec
          /\ html.INITIAL_GAME_STATE.user.position
                = <<program.init_section.user.position.x,
                    program.init_section.user.position.y>>

\* the NPCs of the program that are npc-static and have no placement
UnplacedStatics ==
    {k \in 1..Len(program.init_section.npcs) :
        /\ program.init_section.npcs[k].npc_type = S_npc_static
        /\ program.init_section.npcs[k].placement = NoneRec}

\* C15: when the three checks have run, errors holds the diagnostic
\* `npc-static '<name>' must have a placement specified` for every npc-static
\* declared without placement; so when generate has returned no npc-static
\* of the program lacks a placement, and an NPC of the generated state has a
\* position only from its coordinate placement, never the fallback [10, 10].
C15_StaticNpcPlacement ==
    /\ Returned("validate_semantics") =>
          \A k \in UnplacedStatics :
              StaticPlacement(program.init_section.npcs[k].unique_name)
                  \in Range(errors)
    /\ Returned("generate") =>
          /\ UnplacedStatics = {}
          /\ \A k \in 1..Len(html.INITIAL_GAME_STATE.npcs) :
                html.INITIAL_GAME_STATE.npcs[k].position # undefined =>
                    /\ program.init_section.npcs[k].placement # NoneRec
                    /\ program.init_section.npcs[k].placement.type = "coordinate"
                    /\ html.INITIAL_GAME_STATE.npcs[k].position
                          = <<program.init_section.npcs[k].placement.coord1.x,
                              program.init_section.npcs[k].placement.coord1.y>>

\* the npc-static a without placement: the run has ended with its diagnostic
\* and nothing was generated
C15_Witness ==
    /\ text = Programs.static_unplaced
    /\ pc = "exit"
    /\ errors = <<StaticPlacement(<<"a">>)>>
    /\ UnplacedStatics = {1}
    /\ html = NoneRec
    /\ exit_code = 1

\* the quests of the generated state, and their ids
GeneratedQuests == html.INITIAL_GAME_STATE.quests

QuestIds == [k \in 1..Len(GeneratedQuests) |-> GeneratedQuests[k].id]

\* the ids the quests of a source file are to get
ExpectedQuestIds ==
    [quest_on_ghost |-> <<<<"q", "u", "e", "s", "t", "_", "0">>>>,
     quest_find_key |-> <<<<"f", "i", "n", "d", "_", "k", "e", "y">>>>,
     quests_mixed |-> <<<<"a">>, <<"q", "u", "e", "s", "t", "_", "1">>, <<"b">>>>]

\* C16: when generate has returned, the generated state has one quest for
\* each quest of the program, in order, with status active and completed
\* false; the id of a quest parsed from `<identifier> : if ... then ...` is
\* the identifier, and the id of a quest parsed from `if ... then ...` is
\* quest_<i> with i its 0-based index in the list of all quests.
C16_QuestIds ==
    Returned("generate") =>
        /\ Len(GeneratedQuests) = IF program.quests_section = NoneRec THEN 0
                                  ELSE Len(program.quests_section.quests)
        /\ \A k \in 1..Len(GeneratedQuests) :
              /\ GeneratedQuests[k].status = "active"
              /\ GeneratedQuests[k].completed = FALSE
              /\ program.quests_section.quests[k].name # NoneRec =>
                    QuestIds[k] = program.quests_section.quests[k].name.value
              /\ program.quests_section.quests[k].name = NoneRec =>
                    QuestIds[k] = <<"q", "u", "e", "s", "t", "_">> \o str_of_int(k - 1)
        /\ \A name \in DOMAIN ExpectedQuestIds :
              text = Programs[name] => QuestIds = ExpectedQuestIds[name]

\* the file with the quests a:, anonymous and b: has been compiled
C16_Witness ==
    /\ text = Programs.quests_mixed
    /\ Returned("generate")
    /\ QuestIds = <<<<"a">>, <<"q", "u", "e", "s", "t", "_", "1">>, <<"b">>>>
    /\ pc = "exit"
    /\ exit_code = 0

\* what the stages give on a source text, each from the result of the one
\* before it and from nothing else
TokensOf(source) == tokenize(source).tokens

ParsedFrom(toks) == parse(toks).val

ProgramOf(source) == ParsedFrom(TokensOf(source))

DiagnosticsOf(prog) ==
    IF prog.init_section = NoneRec THEN <<MissingInit>>
    ELSE validate_uniqueness(prog.init_section)
         \o validate_collisions(prog.init_section) \o validate_semantics(prog)

-----------------------------------------------------------------------------
(* Properties of the property lists *)

\* a declaration, and the same declaration with a comma between its two
\* properties
CommaPairs ==
    {[plain |-> Programs.static_placed, comma |-> Programs.npc_comma],
     [plain |-> Programs.user_named, comma |-> Programs.user_comma]}

\* C19: once the tokens of a declaration with a comma between two adjacent
\* properties have been parsed, for an NPC and for the user, parse has
\* returned the program the declaration without the comma parses to.
C19_CommasCosmetic ==
    \A pair \in CommaPairs :
        text = pair.comma /\ Returned("tokenize") /\ pc # "parse" =>
            /\ Returned("parse")
            /\ program = ProgramOf(pair.plain)

\* the NPCCondition the phrase `if user has item "key" then response "hi"`
\* is to parse to
ItemCondition ==
    [class |-> "NPCCondition",
     condition_type |-> StrValue(<<"i", "t", "e", "m">>),
     operator |-> NoneRec,
     value |-> StrValue(<<"k", "e", "y">>),
     then_action |-> StrValue(<<"r", "e", "s", "p", "o", "n", "s", "e">>),
     action_value |-> StrValue(<<"h", "i">>)]

\* C20: once the tokens of an NPC declaration with the phrase `if user has
\* item "key" then response "hi"` have been parsed, parse has returned a
\* program whose NPC has the one NPCCondition with condition_type item, no
\* operator, value key, then_action response and action_value hi; and when
\* generate has returned, the conditions of the NPC in the generated state
\* hold those five fields unchanged.
C20_NpcConditionPhrase ==
    text = Programs.npc_condition /\ Returned("tokenize") /\ pc # "parse" =>
        /\ Returned("parse")
        /\ program.init_section.npcs[1].conditions = <<ItemCondition>>
        /\ Returned("generate") =>
              html.INITIAL_GAME_STATE.npcs[1].conditions
                 = <<[condition_type |-> ItemCondition.condition_type,
                      operator |-> ItemCondition.operator,
                      value |-> ItemCondition.value,
                      then_action |-> ItemCondition.then_action,
                      action_value |-> ItemCondition.action_value]>>

-----------------------------------------------------------------------------
(* Properties of the generated game *)

\* the placement and the position of the mythics, items, monsters and NPCs
\* of the game
GameEntities ==
    LET Placed(entities) ==
            [k \in 1..Len(entities) |->
                [placement |-> entities[k].placement,
                 position |-> entities[k].position]]
    IN  Placed(game.mythics) \o Placed(game.items) \o Placed(game.monsters)
        \o Placed(game.npcs)

\* a position inside the world
InsideWorld(position) ==
    /\ position[1] \in 0..(game.world.width - 1)
    /\ position[2] \in 0..(game.world.height - 1)

\* C18: when placeRandomEntities has returned, a mythic, item, monster or
\* NPC declared with `place at random(0%)` has no position, and one declared
\* with `place at random(100%)` has a position inside the world, whatever
\* Math.random() returned.
C18_RandomPlacement ==
    Returned("placeRandomEntities") =>
        \A k \in 1..Len(GameEntities) : LET e == GameEntities[k] IN
            e.placement # undefined /\ e.placement.type = "random" =>
                /\ e.placement.percentage = Number(<<"0">>, FALSE) =>
                      e.position = undefined
                /\ e.placement.percentage = Number(<<"1", "0", "0">>, FALSE) =>
                      e.position # undefined /\ InsideWorld(e.position)

-----------------------------------------------------------------------------
(* Properties of the end-game section *)

\* the two results an end-game clause can be tagged with
EndResults == {S_win, S_lose}

\* C21: when parse has returned, every EndCondition of the end-game section
\* carries the result `win the game` or `die and lose the game`; and when
\* generate has returned, so does every end-game condition of the generated
\* state: none has a null result.
C21_EndResultTagged ==
    /\ Returned("parse") /\ program.end_game_section # NoneRec =>
          \A k \in 1..Len(program.end_game_section.conditions) :
              program.end_game_section.conditions[k].result \in EndResults
    /\ Returned("generate") /\ has_conditions(html.INITIAL_GAME_STATE.end_game) =>
          \A k \in 1..Len(html.INITIAL_GAME_STATE.end_game.conditions) :
              html.INITIAL_GAME_STATE.end_game.conditions[k].result \in EndResults

\* the clauses the end-game sections of the played programs are written as
Clauses ==
    [two_wins |-> <<[conditions |-> <<UserAt(1, 0)>>, result |-> S_win],
                    [conditions |-> <<UserAt(2, 1)>>, result |-> S_win]>>,
     win_and |-> <<[conditions |-> <<UserAt(1, 0), UserHas(<<"k", "e", "y">>)>>,
                    result |-> S_win],
                   [conditions |-> <<UserAt(0, 1)>>, result |-> S_lose]>>,
     rule_and_quest |-> <<>>,
     walled_in |-> <<>>,
     pickups |-> <<[conditions |-> <<UserHas(<<"p", "o", "t">>)>>, result |-> S_win]>>,
     quest_and_end |-> <<[conditions |-> <<UserAt(2, 1)>>, result |-> S_win],
                         [conditions |-> <<UserAt(0, 0)>>, result |-> S_lose]>>]

\* no two different clauses of several conditions share a result
Flattenable(clauses) ==
    \A i, j \in 1..Len(clauses) :
        /\ i # j
        /\ Len(clauses[i].conditions) > 1
        /\ Len(clauses[j].conditions) > 1
        => clauses[i].result # clauses[j].result

\* the conditions of the clauses, each with the result of its clause
RECURSIVE Flattened(_)
Flattened(clauses) ==
    IF clauses = <<>> THEN <<>>
    ELSE EndConditions(Head(clauses).conditions, Head(clauses).result)
         \o Flattened(Tail(clauses))

\* some clause with the result has all of its own conditions true
ClauseHolds(clauses, result) ==
    \E k \in 1..Len(clauses) :
        /\ clauses[k].result = result
        /\ checkConditions(game, conditions_to_dicts(clauses[k].conditions))

\* C22: the end-game conditions of a program are those of its clauses, each
\* with the result of its clause, in order; and if no two different clauses
\* of several conditions share a result, a call of moveUser that moves a user
\* whose health is above 0 shows the alert of a result exactly when some
\* clause with that result has all of its own conditions true.
C22_ClauseWise ==
    [][\A name \in DOMAIN Clauses :
          /\ pc = "started"
          /\ program = PlayPrograms[name]
          /\ Flattenable(Clauses[name])
          /\ game'.user.position # game.user.position
          /\ game'.user.health > 0
          => /\ Clauses[name] # <<>> =>
                   program.end_game_section.conditions = Flattened(Clauses[name])
             /\ \A result \in EndResults :
                   (\E k \in (Len(alerts) + 1)..Len(alerts') :
                       alerts'[k].won = (result = S_win))
                   <=> ClauseHolds(Clauses[name], result)']_vars

-----------------------------------------------------------------------------
(* Properties of the rules and the quests of a played game *)

\* the rules that level the user up and whose conditions hold
RulesHolding ==
    {k \in 1..Len(game.rules) :
        /\ game.rules[k].action.type = "level up"
        /\ checkConditions(game, game.rules[k].conditions)}

\* the quests that have been completed
QuestsCompleted == {k \in 1..Len(game.quests) : game.quests[k].completed}

\* C30: the triggered flag of no rule is ever set, and a call of moveUser
\* that moves the user raises the level of the user by one for every
\* level-up rule whose conditions hold after the move, whether or not the
\* rule was carried out before, and by one for every level-up quest the move
\* completes; a completed quest stays completed, so its action is carried
\* out at most once; a call of moveUser that is turned down leaves the level
\* as it is.
C30_RulesRepeat ==
    [][pc = "started" =>
          /\ \A k \in 1..Len(game'.rules) : ~game'.rules[k].triggered
          /\ QuestsCompleted \subseteq QuestsCompleted'
          /\ \A k \in QuestsCompleted' : game'.quests[k].status = "completed"
          /\ game'.user.level
                = IF game'.user.position = game.user.position
                  THEN game.user.level
                  ELSE game.user.level + Cardinality(RulesHolding')
                       + Cardinality({k \in QuestsCompleted' \ QuestsCompleted :
                                         game.quests[k].action.type = "level up"})]_vars

\* the user has stepped on (1, 0), off it and on it again: the rule has
\* raised the level twice and the quest once
C30_Witness ==
    /\ pc = "started"
    /\ program = PlayPrograms.rule_and_quest
    /\ Moves = 3
    /\ game.user.position = <<1, 0>>
    /\ game.user.level = 4
    /\ QuestsCompleted = {1}
    /\ ~game.rules[1].triggered

-----------------------------------------------------------------------------
(* Properties of the monsters of the generated state *)

\* the health a monster declaration is to be serialised with: its health if
\* it has one, else its killable hits if it has them, else 1
DeclaredHealth(monster) ==
    IF monster.health # NoneRec THEN monster.health
    ELSE IF monster.killable_hits # NoneRec THEN monster.killable_hits
    ELSE IntValue(1)

\* C23: when generate has returned, the health of every monster of the
\* generated state is the health of its declaration if it has one, 0
\* included, else its killable hits if it has them, else 1; and its
\* max_health is its health.
C23_MonsterHealth ==
    Returned("generate") =>
        \A k \in 1..Len(html.INITIAL_GAME_STATE.monsters) :
            /\ html.INITIAL_GAME_STATE.monsters[k].health
                  = DeclaredHealth(program.init_section.monsters[k])
            /\ html.INITIAL_GAME_STATE.monsters[k].max_health
                  = html.INITIAL_GAME_STATE.monsters[k].health

\* C24: when generate has returned for a monster declared with `health 5
\* killable 3 hit`, the health of the monster in the generated state is 3;
\* and for one declared with `killable 3 hit health 5`, it is 5.
C24_LastOneWins ==
    Returned("generate") =>
        /\ text = Programs.monster_health_killable =>
              html.INITIAL_GAME_STATE.monsters[1].health = IntValue(3)
        /\ text = Programs.monster_killable_health =>
              html.INITIAL_GAME_STATE.monsters[1].health = IntValue(5)

-----------------------------------------------------------------------------
(* Properties of the placements *)

\* C25: when generate has returned, every mythic of the generated state has
\* either a position or a placement of type random, and not both; and no
\* mythic of the program is declared with a range placement.
C25_MythicPlaced ==
    Returned("generate") =>
        /\ \A k \in 1..Len(html.INITIAL_GAME_STATE.mythics) :
              LET mythic == html.INITIAL_GAME_STATE.mythics[k] IN
              /\ mythic.position # undefined \/ mythic.placement # undefined
              /\ mythic.position = undefined \/ mythic.placement = undefined
              /\ mythic.placement # undefined => mythic.placement.type = "random"
        /\ \A k \in 1..Len(program.init_section.mythics) :
              \/ program.init_section.mythics[k].placement = NoneRec
              \/ program.init_section.mythics[k].placement.type # "range"

\* the placements of the declarations of a program
DeclaredPlacements(prog) ==
    LET Of(declarations) == [k \in 1..Len(declarations) |-> declarations[k].placement]
    IN  Of(prog.init_section.furniture) \o Of(prog.init_section.mythics)
        \o Of(prog.init_section.items) \o Of(prog.init_section.monsters)
        \o Of(prog.init_section.npcs)

\* a percentage from 0 to 100
WithinHundred(percentage) ==
    \/ percentage.whole < 100
    \/ percentage.whole = 100 /\ percentage.frac = <<>>

\* C26: when validate has returned without diagnostics, and so when
\* generate has returned, every random placement of the program has a
\* percentage from 0 to 100.
C26_PercentageRange ==
    Returned("validate") /\ errors = <<>> =>
        \A k \in 1..Len(DeclaredPlacements(program)) :
            LET placement == DeclaredPlacements(program)[k] IN
            placement # NoneRec /\ placement.type = "random" =>
                WithinHundred(placement.percentage)

-----------------------------------------------------------------------------
(* Properties of the user and the collisions *)

\* C27: once validate_collisions has returned for a program whose user has
\* a position, no collision diagnostic names the user, and the position of
\* the user has a collision diagnostic only if two of the monsters and NPCs
\* have a coordinate placement there: a user on the coordinate of one
\* monster or of one NPC gets none.
C27_UserOutsideCollisions ==
    /\ Returned("validate_collisions")
    /\ program.init_section.user # NoneRec
    /\ program.init_section.user.position # NoneRec
    => /\ \A k \in 1..Len(errors) :
             errors[k].message = "Collision at {}: {}" =>
                 \A j \in 1..Len(errors[k].entities) :
                     errors[k].entities[j].prefix
                         \in {"mythic", "item", "monster", "npc"}
       /\ Cardinality(PlacedAt(program.init_section.user.position)) < 2 =>
             CollisionsAt(program.init_section.user.position) = {}

\* a user at (5, 5) and a monster at the coordinate (5, 5): the validation
\* has returned without a diagnostic
C27_Witness ==
    /\ Returned("validate")
    /\ program.init_section # NoneRec
    /\ program.init_section.user # NoneRec
    /\ program.init_section.user.position = Coord(5, 5)
    /\ PlacedAt(Coord(5, 5)) = {1}
    /\ Len(program.init_section.monsters) = 1
    /\ errors = <<>>

-----------------------------------------------------------------------------
(* Properties of the declarations without a name *)

\* the source files whose declarations have no unique_name, or an empty one
Unnamed == {Programs.nameless, Programs.empty_names}

\* the mythics, items, monsters and NPCs of an init section or of a
\* generated state
Entities(lists) == lists.mythics \o lists.items \o lists.monsters \o lists.npcs

\* C28: once the tokens of a source file whose mythic, item, monster and NPC
\* have no unique_name, or an empty one, have been parsed, parse has returned
\* a program without mythics, items, monsters and NPCs, with the user named
\* player; the validation appends no diagnostic and the generated state has
\* none of them either, and the user as player. In every program parse
\* returns, no mythic, item, monster or NPC has an empty name.
C28_UnnamedDropped ==
    /\ text \in Unnamed /\ Returned("tokenize") /\ pc # "parse" =>
          /\ Returned("parse")
          /\ Entities(program.init_section) = <<>>
          /\ program.init_section.user.unique_name = S.player
          /\ errors = <<>>
          /\ Returned("generate") =>
                /\ Entities(html.INITIAL_GAME_STATE) = <<>>
                /\ html.INITIAL_GAME_STATE.user.unique_name = S.player
    /\ Returned("parse") /\ program.init_section # NoneRec =>
          \A k \in 1..Len(Entities(program.init_section)) :
              Entities(program.init_section)[k].unique_name # <<>>

\* the file with the empty names has been compiled: the state has the user
\* player and nothing else
C28_Witness ==
    /\ text = Programs.empty_names
    /\ pc = "exit"
    /\ exit_code = 0
    /\ Returned("generate")
    /\ Entities(html.INITIAL_GAME_STATE) = <<>>
    /\ html.INITIAL_GAME_STATE.user.unique_name = S.player
    /\ html.INITIAL_GAME_STATE.user.position = <<1, 1>>

-----------------------------------------------------------------------------
(* Properties of the parser's cursor                                       *)

\* the parser at a position of the token list
ParserAt(c) == [pos |-> c, err |-> NoneRec]

\* a pass from st that leaves `it` does not move the cursor back or past the
\* end of the tokens, and it moves the cursor on, leaves the loop, or raises
Passes(toks, st, it) ==
    /\ it.st.p.pos >= st.p.pos
    /\ it.st.p.pos <= Len(toks)
    /\ it.st.p.pos > st.p.pos \/ it.exits \/ Failed(it.st.p)

\* the passes of the loops, each from the position c of the tokens and with
\* the locals the loop starts with
LoopPasses(toks, c) ==
    LET mythic == [p |-> ParserAt(c), unique_name |-> NoneRec, placement |-> NoneRec,
                   can_pickup |-> FALSE, catch_message |-> NoneRec]
        item == [p |-> ParserAt(c), unique_name |-> NoneRec, placement |-> NoneRec,
                 can_pickup |-> FALSE, effect |-> NoneRec, damage |-> NoneRec,
                 catch_message |-> NoneRec]
        effect == [p |-> ParserAt(c), effect |-> NoneRec, effect_parts |-> <<>>]
        monster == [p |-> ParserAt(c), unique_name |-> NoneRec, placement |-> NoneRec,
                    health |-> NoneRec, killable_hits |-> NoneRec,
                    experience |-> NoneRec]
        user == [p |-> ParserAt(c), unique_name |-> NoneRec, context |-> NoneRec,
                 position |-> NoneRec]
        npc == [p |-> ParserAt(c), unique_name |-> NoneRec, placement |-> NoneRec,
                context |-> NoneRec, response |-> NoneRec, state_machine |-> NoneRec,
                emoji |-> NoneRec, agenda |-> NoneRec, conditions |-> <<>>,
                catch_message |-> NoneRec]
        end_game == [p |-> ParserAt(c), conditions |-> <<>>, win_message |-> NoneRec,
                     lose_message |-> NoneRec]
        on_game_start == [p |-> ParserAt(c), title |-> NoneRec, text_lines |-> <<>>,
                          links |-> <<>>]
        parts == Ret(ParserAt(c), <<>>)
        init == Ret(ParserAt(c), InitSection)
        prog == Ret(ParserAt(c), Program(<<>>, NoneRec, NoneRec, NoneRec, NoneRec,
                                         NoneRec))
    IN  /\ Passes(toks, prog, parse_entry(toks, prog))
        /\ Passes(toks, init, parse_init_entry(toks, init))
        /\ Passes(toks, mythic, parse_mythic_property(toks, mythic))
        /\ Passes(toks, item, parse_item_property(toks, item))
        /\ Passes(toks, effect, parse_effect_part(toks, effect))
        /\ Passes(toks, monster, parse_monster_property(toks, monster))
        /\ Passes(toks, user, parse_user_property(toks, user))
        /\ Passes(toks, npc, parse_npc_property(toks, npc))
        /\ Passes(toks, parts, parse_quests_entry(toks, parts))
        /\ Passes(toks, end_game, parse_end_game_entry(toks, end_game))
        /\ Passes(toks, on_game_start, parse_on_game_start_entry(toks, on_game_start))
        /\ Passes(toks, parts, parse_title_part(toks, parts))

\* parse() of the tokens ends, at the EOF token unless it raises
ParseEnds(toks) ==
    LET parser == parse(toks).p IN
    /\ parser.pos \in 0..Len(toks)
    /\ Failed(parser) \/ parser.pos = Len(toks) - 1

\* the cursor is within the tokens; from every position of the tokens that
\* are parsed every loop passes, and parse() of them ends; the pass at the
\* head of the dispatch loop passes; and the passes end where parse() ends
CursorInRange ==
    /\ cursor \in 0..Len(tokens)
    /\ pc = "parse" =>
          /\ \A c \in 0..Len(tokens) : LoopPasses(tokens, c)
          /\ ParseEnds(tokens)
    /\ pc = "parse_loop" =>
          Passes(tokens, LoopHead, parse_entry(tokens, LoopHead))
    /\ Returned("parse") => cursor = parse(tokens).p.pos
    /\ (pc = "except" /\ Returned("tokenize")) =>
          /\ cursor = parse(tokens).p.pos
          /\ raised = parse(tokens).p.err

\* C29: parse ends on every token list that ends in EOF: the cursor is never
\* past the tokens, it never moves back, every pass of the dispatch loop
\* that stays in the loop moves it on, and every pass of every loop, from
\* every position, moves it on, leaves the loop or raises SyntaxError; so a
\* loop passes no more often than there are tokens, and parse returns at
\* EOF or raises.
C29_ParseTerminates ==
    /\ []CursorInRange
    /\ [][cursor' >= cursor]_vars
    /\ [][(pc = "parse_loop" /\ pc' = "parse_loop") => cursor' > cursor]_vars

\* a source file of several sections is parsed to its EOF, one section a pass
C29_Witness ==
    /\ text = Programs.quests_mixed
    /\ Returned("parse")
    /\ cursor = Len(tokens) - 1
    /\ program.init_section # NoneRec
    /\ program.quests_section # NoneRec

====
